---------------------------- MODULE Spec2Model ----------------------------
(***************************************************************************)
(* Key scheduler of gemini-balance (app/service/key/key_manager.py) and    *)
(* the streaming retry loop that drives it                                 *)
(* (app/service/chat/gemini_chat_service.py).                              *)
(*                                                                         *)
(* Strings that the code takes apart (model names, RPM_LIMITS entries)     *)
(* are sequences of one-character strings.  API keys are opaque strings.   *)
(* None and "" are both falsy in every test the code makes on a key, so    *)
(* both are NoKey; a missing model is the empty sequence.                  *)
(***************************************************************************)
EXTENDS Integers, Sequences, FiniteSets, TLC

VARIABLES
    api_keys,            \* KeyManager.api_keys: the primary pool, in insertion order
    current_key_index,   \* KeyManager.current_key_index: the rotation cursor
    current_key,         \* KeyManager.current_key: the cached key, NoKey when None
    current_model,       \* KeyManager.current_model
    key_failure_counts,  \* KeyManager.key_failure_counts
    key_request_times,   \* KeyManager.key_request_times: key -> model -> timestamps
    rpm_limits,          \* KeyManager.rpm_limits: ordered (name, limit) entries
    rpm_prefer_cache,    \* KeyManager.rpm_prefer_cache
    rpm_window_seconds,  \* KeyManager.rpm_window_seconds
    vertex_api_keys,             \* KeyManager.vertex_api_keys: the auxiliary pool
    current_vertex_key_index,    \* KeyManager.current_vertex_key_index
    current_vertex_key,          \* KeyManager.current_vertex_key
    vertex_key_failure_counts,   \* KeyManager.vertex_key_failure_counts
    vertex_key_request_times,    \* KeyManager.vertex_key_request_times
    vertex_key_index_lock,       \* KeyManager.vertex_key_index_lock: TRUE while held
    _singleton_instance,                      \* FALSE when None
    _singleton_lock,                          \* TRUE while held
    _preserved_failure_counts,                \* EmptyDict when None
    _preserved_vertex_failure_counts,         \* EmptyDict when None
    _preserved_old_api_keys_for_reset,        \* <<>> when None
    _preserved_vertex_old_api_keys_for_reset, \* <<>> when None
    _preserved_next_key_in_cycle,             \* NoKey when None
    _preserved_vertex_next_key_in_cycle,      \* NoKey when None
    now,                 \* time.time(), in whole seconds
    lastCall,            \* history: the last scheduler call, its arguments and its result
    hist,                \* history: keys of the latest successive calls that found all keys eligible;
                         \* the running task; migration_manager.MIGRATIONS
    req,                 \* one record per dispatched streaming request or task; the
                         \* database of the migration manager
    lastVertexCall,      \* history: the last call on the auxiliary pool and its result
    handoff              \* history: the scheduler given up at the last reset, and the
                         \* first get_next_working_key_with_rpm of its successor

sched_vars == <<api_keys, current_key_index, current_key, current_model,
                key_failure_counts, key_request_times, rpm_limits, rpm_prefer_cache,
                rpm_window_seconds>>

vertex_vars == <<vertex_api_keys, current_vertex_key_index, current_vertex_key,
                 vertex_key_failure_counts, vertex_key_request_times,
                 vertex_key_index_lock, lastVertexCall>>

singleton_vars == <<_singleton_instance, _singleton_lock, _preserved_failure_counts,
                    _preserved_vertex_failure_counts, _preserved_old_api_keys_for_reset,
                    _preserved_vertex_old_api_keys_for_reset,
                    _preserved_next_key_in_cycle, _preserved_vertex_next_key_in_cycle,
                    handoff>>

vars == <<sched_vars, vertex_vars, singleton_vars, now, lastCall, hist, req>>

---------------------------------------------------------------------------
(* Configuration and bounds *)

MAX_FAILURES == 2
MAX_RETRIES == 3
DEFAULT_RPM_LIMIT == 10
DEFAULT_STATUS_CODE == 500
SUCCESS_STATUS_CODE == 200

RPM_WINDOW_SECONDS == 1
MaxTime == 2            \* the clock runs from 0 to MaxTime
MaxOver == 1            \* no window grows more than MaxOver entries beyond its limit
MaxFailCount == 2       \* no failure counter grows beyond MaxFailCount
MaxChunks == 1          \* chunks of one upstream response

NoKey == ""
NoModel == <<>>

\* The models requested: "flash" has its own RPM_LIMITS entry, "pro" has none
\* and falls in the family of the entry "g-pro".
FlashModel == <<"f", "l", "a", "s", "h">>
ProModel == <<"p", "r", "o">>
GProEntry == <<"g", "-", "p", "r", "o">>
Models == {FlashModel}

SmallPools == {<<"a">>, <<"a", "b">>}
Pools == SmallPools \cup {<<"a", "b", "c">>}

\* RPM_LIMITS of the modelled configuration: flash 2/min, pro 1/min
LimitsConfig == << [name |-> FlashModel, limit |-> 2], [name |-> GProEntry, limit |-> 1] >>

---------------------------------------------------------------------------
(* Strings *)

Lower(c) ==
    CASE c = "A" -> "a" [] c = "E" -> "e" [] c = "F" -> "f" [] c = "H" -> "h"
      [] c = "I" -> "i" [] c = "L" -> "l" [] c = "O" -> "o" [] c = "P" -> "p"
      [] c = "R" -> "r" [] c = "S" -> "s" [] c = "T" -> "t"
      [] OTHER -> c

\* str.lower()
lower(s) == [i \in 1..Len(s) |-> Lower(s[i])]

\* `sub in s` for strings
Contains(s, sub) ==
    \E i \in 0..(Len(s) - Len(sub)) : SubSeq(s, i + 1, i + Len(sub)) = sub

RECURSIVE SplitFrom(_, _, _)
SplitFrom(s, i, cur) ==
    IF i > Len(s) THEN <<cur>>
    ELSE IF s[i] = "-" THEN <<cur>> \o SplitFrom(s, i + 1, <<>>)
    ELSE SplitFrom(s, i + 1, Append(cur, s[i]))

\* str.split('-')
split(s) == SplitFrom(s, 1, <<>>)

InList(x, list) == \E i \in 1..Len(list) : list[i] = x

Lite == <<"l", "i", "t", "e">>
Flash == <<"f", "l", "a", "s", "h">>
Pro == <<"p", "r", "o">>

Min(S) == CHOOSE x \in S : \A y \in S : x <= y

---------------------------------------------------------------------------
(* RPM tracker *)

RECURSIVE _clean_old_requests(_, _, _)
_clean_old_requests(timestamps, current_time, window) ==
    IF Len(timestamps) > 0 /\ timestamps[1] < current_time - window
    THEN _clean_old_requests(Tail(timestamps), current_time, window)
    ELSE timestamps

\* key_dict[model] on a defaultdict(deque): a missing entry is created empty
Entry(key_dict, model) ==
    IF model \in DOMAIN key_dict THEN key_dict[model] ELSE <<>>

SetEntry(key_dict, model, ts) ==
    [m \in (DOMAIN key_dict) \cup {model} |-> IF m = model THEN ts ELSE key_dict[m]]

\* mutant: a timestamp exactly one window old is dropped too
Cleaned_Inclusive(times, key, model, t) ==
    [times EXCEPT ![key] =
        SetEntry(@, model, _clean_old_requests(Entry(@, model), t + 1, rpm_window_seconds))]

\* The windows after _get_rpm_count(key, model) at time t: the accessed window is
\* created if missing and cleaned in place.
Cleaned(times, key, model, t) ==
    [times EXCEPT ![key] =
        SetEntry(@, model, _clean_old_requests(Entry(@, model), t, rpm_window_seconds))]

\* mutant: the window is counted as it stands
_get_rpm_count_Uncleaned(times, key, model, t) == Len(Entry(times[key], model))

\* The value _get_rpm_count(key, model) returns at time t.
_get_rpm_count(times, key, model, t) ==
    Len(Entry(Cleaned(times, key, model, t)[key], model))

\* mutant: the request is not appended
_record_request_Dropped(times, key, model, t) ==
    [times EXCEPT ![key] = SetEntry(@, model, Entry(@, model))]

\* mutant: the request is put at the head of the window
_record_request_Front(times, key, model, t) ==
    [times EXCEPT ![key] = SetEntry(@, model, <<t>> \o Entry(@, model))]

\* The windows after _record_request(key, model) at time t.
_record_request(times, key, model, t) ==
    [times EXCEPT ![key] = SetEntry(@, model, Append(Entry(@, model), t))]

\* The loop over rpm_limits.items(): the first entry of the model's family
RECURSIVE FuzzyFrom(_, _, _)
FuzzyFrom(limits, i, model_lower) ==
    IF i > Len(limits) THEN [found |-> FALSE, value |-> 0]
    ELSE LET key_parts == split(lower(limits[i].name))
         IN  IF InList(Lite, key_parts) /\ Contains(model_lower, Lite)
             THEN [found |-> TRUE, value |-> limits[i].limit]
             ELSE IF InList(Flash, key_parts) /\ Contains(model_lower, Flash)
                     /\ ~Contains(model_lower, Lite)
             THEN [found |-> TRUE, value |-> limits[i].limit]
             ELSE IF InList(Pro, key_parts) /\ Contains(model_lower, Pro)
             THEN [found |-> TRUE, value |-> limits[i].limit]
             ELSE FuzzyFrom(limits, i + 1, model_lower)

\* limits is the dict RPM_LIMITS in insertion order; its names are distinct
_get_rpm_limit_for_model(limits, model) ==
    IF \E i \in 1..Len(limits) : limits[i].name = model
    THEN limits[CHOOSE i \in 1..Len(limits) : limits[i].name = model].limit
    ELSE LET fuzzy == FuzzyFrom(limits, 1, lower(model))
         IN  IF fuzzy.found THEN fuzzy.value
             ELSE IF Len(limits) > 0
                  THEN Min({limits[i].limit : i \in 1..Len(limits)})
                  ELSE DEFAULT_RPM_LIMIT

\* mutant: a key at its limit counts as within it
is_key_within_rpm_limit_Inclusive(times, limits, key, model, t) ==
    _get_rpm_count(times, key, model, t) <= _get_rpm_limit_for_model(limits, model)

is_key_within_rpm_limit(times, limits, key, model, t) ==
    _get_rpm_count(times, key, model, t) < _get_rpm_limit_for_model(limits, model)

\* mutant: a key at MAX_FAILURES counts as valid
is_key_valid_Inclusive(fails, key) == fails[key] <= MAX_FAILURES

is_key_valid(fails, key) == fails[key] < MAX_FAILURES


---------------------------------------------------------------------------
(* Key scheduler.  An operation takes the scheduler state S, a record of  *)
(* the KeyManager fields, and returns it changed, with the value returned *)
(* in ret and the return statement taken in path.                         *)

Sched ==
    [api_keys |-> api_keys, index |-> current_key_index, current_key |-> current_key,
     current_model |-> current_model, fails |-> key_failure_counts,
     times |-> key_request_times, limits |-> rpm_limits, prefer |-> rpm_prefer_cache]

Returned(S, ret, path) ==
    [api_keys |-> S.api_keys, index |-> S.index, current_key |-> S.current_key,
     current_model |-> S.current_model, fails |-> S.fails, times |-> S.times,
     limits |-> S.limits, prefer |-> S.prefer, ret |-> ret, path |-> path]

\* mutant: the cursor is advanced without wrapping at the end of the pool
get_next_key_NoWrap(S) ==
    IF Len(S.api_keys) = 0 THEN Returned(S, NoKey, "empty")
    ELSE Returned([S EXCEPT !.index = S.index + 1], S.api_keys[S.index + 1], "next")

\* get_next_key: the key at the cursor, and the cursor advanced
get_next_key(S) ==
    IF Len(S.api_keys) = 0 THEN Returned(S, NoKey, "empty")
    ELSE Returned([S EXCEPT !.index = (S.index + 1) % Len(S.api_keys)],
                  S.api_keys[S.index + 1], "next")

\* The loop of get_next_working_key after the first get_next_key
RECURSIVE WorkingLoop(_, _, _)
WorkingLoop(S, initial_key, key) ==
    IF is_key_valid(S.fails, key) THEN Returned(S, key, "legacy")
    ELSE LET n == get_next_key(S)
         IN  IF n.ret = initial_key THEN Returned(n, n.ret, "legacy")
             ELSE WorkingLoop(n, initial_key, n.ret)

get_next_working_key(S) ==
    LET first == get_next_key(S)
    IN  WorkingLoop(first, first.ret, first.ret)

\* The while loop of get_next_working_key_with_rpm: the first key from the cursor
\* on that is valid and within its limit; every key it visits has its window cleaned.
RECURSIVE ScanFrom(_, _, _, _, _, _)
ScanFrom(S, times, model, t, start_index, checked_count) ==
    IF checked_count >= Len(S.api_keys)
    THEN [found |-> FALSE, index |-> 0, times |-> times]
    ELSE LET check_index == (start_index + checked_count) % Len(S.api_keys)
             key == S.api_keys[check_index + 1]
             times1 == Cleaned(times, key, model, t)
         IN  IF is_key_valid(S.fails, key)
                /\ is_key_within_rpm_limit(times1, S.limits, key, model, t)
             THEN [found |-> TRUE, index |-> check_index, times |-> times1]
             ELSE ScanFrom(S, times1, model, t, start_index, checked_count + 1)

\* usage_ratio = current_rpm / rpm_limit if rpm_limit > 0 else 0, kept as a fraction
UsageRatio(current_rpm, rpm_limit) ==
    IF rpm_limit > 0 THEN [inf |-> FALSE, num |-> current_rpm, den |-> rpm_limit]
    ELSE [inf |-> FALSE, num |-> 0, den |-> 1]

Infinity == [inf |-> TRUE, num |-> 0, den |-> 1]

\* mutant: a later key with the same usage replaces the best key
RatioLess_OrEqual(u, v) ==
    /\ ~u.inf
    /\ (v.inf \/ u.num * v.den <= v.num * u.den)

RatioLess(u, v) ==
    /\ ~u.inf
    /\ (v.inf \/ u.num * v.den < v.num * u.den)

\* The for loop of _get_least_used_key
RECURSIVE LeastFrom(_, _, _, _, _, _, _)
LeastFrom(S, times, model, t, i, best_key, lowest_usage) ==
    IF i > Len(S.api_keys) THEN [best_key |-> best_key, times |-> times]
    ELSE LET key == S.api_keys[i]
         IN  IF is_key_valid(S.fails, key)
             THEN LET times1 == Cleaned(times, key, model, t)
                      usage_ratio ==
                          UsageRatio(_get_rpm_count(times1, key, model, t),
                                     _get_rpm_limit_for_model(S.limits, model))
                  IN  IF RatioLess(usage_ratio, lowest_usage)
                      THEN LeastFrom(S, times1, model, t, i + 1, key, usage_ratio)
                      ELSE LeastFrom(S, times1, model, t, i + 1, best_key, lowest_usage)
             ELSE LeastFrom(S, times, model, t, i + 1, best_key, lowest_usage)

\* mutant: no key is ever found
_get_least_used_key_None(S, times, model, t) ==
    [best_key |-> NoKey, times |-> LeastFrom(S, times, model, t, 1, NoKey, Infinity).times]

_get_least_used_key(S, times, model, t) ==
    LeastFrom(S, times, model, t, 1, NoKey, Infinity)

\* list.index
IndexOf(keys, key) == (CHOOSE i \in 1..Len(keys) :
                          keys[i] = key /\ \A j \in 1..(i - 1) : keys[j] # key) - 1

\* mutant: the cursor stays on the selected key
Selected_NoAdvance(S, times, i, key, model, t, path) ==
    Returned([S EXCEPT !.index = i % Len(S.api_keys),
                       !.current_key = key,
                       !.times = _record_request(times, key, model, t)],
             key, path)

\* mutant: the selection returns no key
Selected_NoKey(S, times, i, key, model, t, path) ==
    Returned([S EXCEPT !.index = (i + 1) % Len(S.api_keys),
                       !.current_key = key,
                       !.times = _record_request(times, key, model, t)],
             NoKey, path)

\* mutant: a newly selected key is returned without recording the request
Selected_Unrecorded(S, times, i, key, model, t, path) ==
    Returned([S EXCEPT !.index = (i + 1) % Len(S.api_keys),
                       !.current_key = key,
                       !.times = times],
             key, path)

\* The cursor set to one past index i, key cached, the request recorded
Selected(S, times, i, key, model, t, path) ==
    Returned([S EXCEPT !.index = (i + 1) % Len(S.api_keys),
                       !.current_key = key,
                       !.times = _record_request(times, key, model, t)],
             key, path)

get_next_working_key_with_rpm(S0, model, t) ==
    LET S == [S0 EXCEPT !.current_model = model]
        try_cache == S.prefer /\ S.current_key # NoKey
        timesC == IF try_cache THEN Cleaned(S.times, S.current_key, model, t)
                  ELSE S.times
    IN  IF /\ try_cache
           /\ is_key_valid(S.fails, S.current_key)
           /\ is_key_within_rpm_limit(timesC, S.limits, S.current_key, model, t)
        THEN Returned([S EXCEPT !.times =
                          _record_request(timesC, S.current_key, model, t)],
                      S.current_key, "cache")
        ELSE IF Len(S.api_keys) = 0
        THEN Returned([S EXCEPT !.times = timesC], NoKey, "empty")
        ELSE LET scan == ScanFrom(S, timesC, model, t, S.index, 0)
             IN  IF scan.found
                 THEN Selected(S, scan.times, scan.index,
                               S.api_keys[scan.index + 1], model, t, "scan")
                 ELSE LET least == _get_least_used_key(S, scan.times, model, t)
                      IN  IF least.best_key # NoKey
                          THEN Selected(S, least.times,
                                        IndexOf(S.api_keys, least.best_key),
                                        least.best_key, model, t, "least")
                          ELSE Selected(S, least.times, S.index,
                                        S.api_keys[S.index + 1], model, t, "forced")

\* mutant: the cached key is not cleared before the next key is selected
handle_api_failure_KeepsCache(S0, api_key, retries, model, t) ==
    LET S == [S0 EXCEPT !.fails[api_key] = @ + 1]
    IN  IF retries < MAX_RETRIES
        THEN LET model_to_use == IF model # NoModel THEN model ELSE S.current_model
             IN  IF model_to_use # NoModel
                 THEN get_next_working_key_with_rpm(S, model_to_use, t)
                 ELSE get_next_working_key(S)
        ELSE Returned(S, NoKey, "none")

\* mutant: the failure is counted only when another attempt follows
handle_api_failure_NoCountAtCap(S0, api_key, retries, model, t) ==
    LET S == [S0 EXCEPT !.fails[api_key] = @ + 1]
    IN  IF retries < MAX_RETRIES
        THEN LET model_to_use == IF model # NoModel THEN model ELSE S.current_model
             IN  IF model_to_use # NoModel
                 THEN get_next_working_key_with_rpm(
                          [S EXCEPT !.current_key = NoKey], model_to_use, t)
                 ELSE get_next_working_key(S)
        ELSE Returned(S0, NoKey, "none")

handle_api_failure(S0, api_key, retries, model, t) ==
    LET S == [S0 EXCEPT !.fails[api_key] = @ + 1]
    IN  IF retries < MAX_RETRIES
        THEN LET model_to_use == IF model # NoModel THEN model ELSE S.current_model
             IN  IF model_to_use # NoModel
                 THEN get_next_working_key_with_rpm(
                          [S EXCEPT !.current_key = NoKey], model_to_use, t)
                 ELSE get_next_working_key(S)
        ELSE Returned(S, NoKey, "none")

reset_failure_counts(S) ==
    Returned([S EXCEPT !.fails = [k \in DOMAIN S.fails |-> 0]], NoKey, "reset")

\* mutant: resetting one key resets every counter
reset_key_failure_count_All(S, key) ==
    IF key \in DOMAIN S.fails
    THEN Returned([S EXCEPT !.fails = [k \in DOMAIN S.fails |-> 0]], NoKey, "reset")
    ELSE Returned(S, NoKey, "missing")

reset_key_failure_count(S, key) ==
    IF key \in DOMAIN S.fails
    THEN Returned([S EXCEPT !.fails[key] = 0], NoKey, "reset")
    ELSE Returned(S, NoKey, "missing")

\* The for loop of get_keys_by_status
RECURSIVE StatusFrom(_, _, _, _)
StatusFrom(S, i, valid_keys, invalid_keys) ==
    IF i > Len(S.api_keys)
    THEN [valid_keys |-> valid_keys, invalid_keys |-> invalid_keys]
    ELSE LET key == S.api_keys[i]
             fail_count == S.fails[key]
         IN  IF fail_count < MAX_FAILURES
             THEN StatusFrom(S, i + 1, (key :> fail_count) @@ valid_keys, invalid_keys)
             ELSE StatusFrom(S, i + 1, valid_keys, (key :> fail_count) @@ invalid_keys)

EmptyDict == [k \in {} |-> 0]

\* mutant: the two maps are returned in each other's place
get_keys_by_status_Swapped(S) ==
    LET st == StatusFrom(S, 1, EmptyDict, EmptyDict)
    IN  [valid_keys |-> st.invalid_keys, invalid_keys |-> st.valid_keys]

get_keys_by_status(S) == StatusFrom(S, 1, EmptyDict, EmptyDict)

---------------------------------------------------------------------------
(* Actions of the scheduler *)

EmptyStatus == [valid_keys |-> EmptyDict, invalid_keys |-> EmptyDict]

Call(op, key, retries, model, R, status) ==
    [op |-> op, key |-> key, retries |-> retries, model |-> model,
     ret |-> R.ret, path |-> R.path, status |-> status]

KeySet == {api_keys[i] : i \in 1..Len(api_keys)}

WithinBounds(R) ==
    /\ \A k \in DOMAIN R.times : \A m \in DOMAIN R.times[k] :
           Len(R.times[k][m]) <= _get_rpm_limit_for_model(R.limits, m) + MaxOver
    /\ \A k \in DOMAIN R.fails : R.fails[k] <= MaxFailCount

\* The scheduler fields take the values of R.
Store(R) ==
    /\ current_key_index' = R.index
    /\ current_key' = R.current_key
    /\ current_model' = R.current_model
    /\ key_failure_counts' = R.fails
    /\ key_request_times' = R.times
    /\ UNCHANGED <<api_keys, rpm_limits, rpm_prefer_cache, rpm_window_seconds>>

IdleReq ==
    [pc |-> "idle", model |-> NoModel, api_key |-> NoKey, retries |-> 0,
     status_code |-> 0, is_success |-> FALSE, yielded |-> 0,
     delivered |-> <<>>, keys |-> <<>>, outcome |-> "none"]

Reqs == {"r1", "r2"}

\* handoff while no reset has happened
NoHandoff ==
    [phase |-> "none", api_keys |-> <<>>, index |-> 0, fails |-> EmptyDict,
     times |-> EmptyDict, first |-> NoKey]

NoVertexCall == [op |-> "init", ret |-> NoKey, path |-> "none"]

\* The fields KeyManager.__init__(keys, vkeys) sets, under the settings limits,
\* window and prefer
KeyManagerInit(keys, vkeys, limits, window, prefer) ==
    /\ api_keys = keys
    /\ vertex_api_keys = vkeys
    /\ current_key_index = 0
    /\ current_vertex_key_index = 0
    /\ key_failure_counts = [k \in {keys[i] : i \in 1..Len(keys)} |-> 0]
    /\ vertex_key_failure_counts = [k \in {vkeys[i] : i \in 1..Len(vkeys)} |-> 0]
    /\ key_request_times = [k \in {keys[i] : i \in 1..Len(keys)} |-> EmptyDict]
    /\ vertex_key_request_times = [k \in {vkeys[i] : i \in 1..Len(vkeys)} |-> EmptyDict]
    /\ vertex_key_index_lock = FALSE
    /\ current_key = NoKey
    /\ current_vertex_key = NoKey
    /\ current_model = NoModel
    /\ rpm_limits = limits
    /\ rpm_window_seconds = window
    /\ rpm_prefer_cache = prefer

\* The module-level state of key_manager.py once the first
\* get_key_manager_instance has built the scheduler
SingletonInit ==
    /\ _singleton_instance = TRUE
    /\ _singleton_lock = FALSE
    /\ _preserved_failure_counts = EmptyDict
    /\ _preserved_vertex_failure_counts = EmptyDict
    /\ _preserved_old_api_keys_for_reset = <<>>
    /\ _preserved_vertex_old_api_keys_for_reset = <<>>
    /\ _preserved_next_key_in_cycle = NoKey
    /\ _preserved_vertex_next_key_in_cycle = NoKey

\* The clock at 0 and no call made yet
HistoryInit ==
    /\ now = 0
    /\ lastCall = Call("init", NoKey, 0, NoModel, Returned(Sched, NoKey, "none"), EmptyStatus)
    /\ lastVertexCall = NoVertexCall
    /\ handoff = NoHandoff
    /\ hist = <<>>
    /\ req = [r \in Reqs |-> IdleReq]

\* KeyManager.__init__ with the pool drawn from pools and no auxiliary keys
InitWith(pools) ==
    /\ \E keys \in pools, prefer \in BOOLEAN :
           KeyManagerInit(keys, <<>>, LimitsConfig, RPM_WINDOW_SECONDS, prefer)
    /\ SingletonInit
    /\ HistoryInit

\* time passes
Tick ==
    /\ now < MaxTime
    /\ now' = now + 1
    /\ UNCHANGED <<sched_vars, vertex_vars, singleton_vars, lastCall, hist, req>>

\* get_next_working_key_with_rpm(model), called at time now
ChooseCall(model) ==
    LET R == get_next_working_key_with_rpm(Sched, model, now)
    IN  /\ WithinBounds(R)
        /\ Store(R)
        /\ lastCall' = Call("choose", NoKey, 0, model, R, EmptyStatus)
        /\ UNCHANGED now

Choose(model) ==
    ChooseCall(model) /\ UNCHANGED <<vertex_vars, singleton_vars, hist, req>>

\* handle_api_failure(api_key, retries, model), called at time now
FailureCall(api_key, retries, model) ==
    LET R == handle_api_failure(Sched, api_key, retries, model, now)
    IN  /\ WithinBounds(R)
        /\ Store(R)
        /\ lastCall' = Call("onFailure", api_key, retries, model, R, EmptyStatus)
        /\ UNCHANGED now

HandleApiFailure(api_key, retries, model) ==
    FailureCall(api_key, retries, model)
    /\ UNCHANGED <<vertex_vars, singleton_vars, hist, req>>

ResetKeyFailureCount(key) ==
    LET R == reset_key_failure_count(Sched, key)
    IN  /\ Store(R)
        /\ lastCall' = Call("resetKey", key, 0, NoModel, R, EmptyStatus)
        /\ UNCHANGED <<vertex_vars, singleton_vars, now, hist, req>>

ResetFailureCounts ==
    LET R == reset_failure_counts(Sched)
    IN  /\ Store(R)
        /\ lastCall' = Call("resetAll", NoKey, 0, NoModel, R, EmptyStatus)
        /\ UNCHANGED <<vertex_vars, singleton_vars, now, hist, req>>

GetKeysByStatus ==
    /\ lastCall' = Call("classify", NoKey, 0, NoModel, Returned(Sched, NoKey, "none"),
                        get_keys_by_status(Sched))
    /\ UNCHANGED <<sched_vars, vertex_vars, singleton_vars, now, hist, req>>

\* The values of retries in a call of handle_api_failure: the first failure of a
\* request and the one that uses up MAX_RETRIES
Attempts == {1, MAX_RETRIES}

\* The values of model in a call of handle_api_failure.  A call without a model
\* uses current_model, which is one of Models as soon as it is set: it is a call
\* of its own only while no model is current.
FailureModels == IF current_model = NoModel THEN Models \cup {NoModel} ELSE Models

\* The scheduler with its clock, on pools of one and two keys
Init == InitWith(SmallPools)

Next ==
    \/ Tick
    \/ \E m \in Models : Choose(m)
    \/ \E k \in KeySet, n \in Attempts, m \in FailureModels :
           HandleApiFailure(k, n, m)
    \/ \E k \in KeySet : ResetKeyFailureCount(k)
    \/ ResetFailureCounts

Spec == Init /\ [][Next]_vars

---------------------------------------------------------------------------
(* Successive calls of get_next_working_key_with_rpm.  hist keeps the keys *)
(* returned by the latest |pool| + 1 calls made one after the other, each  *)
(* of which found every key of the pool valid and within its limit; a call *)
(* that finds a key disabled or at its limit starts the run afresh.        *)

AllEligible(model) ==
    \A k \in KeySet :
        /\ is_key_valid(key_failure_counts, k)
        /\ is_key_within_rpm_limit(key_request_times, rpm_limits, k, model, now)

Latest(h, n) == IF Len(h) > n THEN SubSeq(h, Len(h) - n + 1, Len(h)) ELSE h

ChooseTraced(model) ==
    /\ ChooseCall(model)
    /\ hist' = IF AllEligible(model)
               THEN Latest(Append(hist, lastCall'.ret), Len(api_keys) + 1)
               ELSE <<>>
    /\ UNCHANGED <<vertex_vars, singleton_vars, req>>

\* the key just handed out fails for good, between two runs of calls
FailureTraced(api_key, model) ==
    /\ lastCall.op = "choose" /\ api_key = lastCall.ret
    /\ FailureCall(api_key, MAX_RETRIES, model)
    /\ hist' = <<>>
    /\ UNCHANGED <<vertex_vars, singleton_vars, req>>

InitRotate == InitWith(Pools)

NextRotate ==
    \/ Tick
    \/ \E m \in Models : ChooseTraced(m)
    \/ \E k \in KeySet, m \in Models : FailureTraced(k, m)

SpecRotate == InitRotate /\ [][NextRotate]_vars

---------------------------------------------------------------------------
(* The streaming dispatcher: GeminiChatService.stream_generate_content.    *)
(* The upstream answers a request with the chunks 1..MaxChunks and may     *)
(* raise at any point of an attempt; a new attempt starts the answer over. *)

\* The caller obtains the key of the first attempt from the scheduler.
RouteKey(S, model, t) == get_next_working_key_with_rpm(S, model, t)

\* The exceptions of the upstream: a message with "status code 429" and one without
Errors == {[has_code |-> TRUE, code |-> 429], [has_code |-> FALSE, code |-> 0]}

\* re.search(r"status code (\d+)", error_log_msg), else 500
StatusCodeOf(e) == IF e.has_code THEN e.code ELSE DEFAULT_STATUS_CODE

\* the call of stream_generate_content, up to the first attempt
Dispatch(r, model) ==
    LET R == RouteKey(Sched, model, now)
    IN  /\ req[r].pc = "idle"
        /\ r # "r1" => req["r1"].pc # "idle"     \* requests are numbered as they arrive
        /\ WithinBounds(R)
        /\ Store(R)
        /\ lastCall' = Call("choose", NoKey, 0, model, R, EmptyStatus)
        /\ req' = [req EXCEPT ![r] =
               IF 0 < MAX_RETRIES
               THEN [@ EXCEPT !.pc = "attempt", !.model = model, !.api_key = R.ret,
                              !.keys = <<R.ret>>]
               ELSE [@ EXCEPT !.pc = "done", !.model = model, !.api_key = R.ret,
                              !.outcome = "completed"]]
        /\ UNCHANGED <<vertex_vars, singleton_vars, now, hist>>

\* the upstream sends the next chunk, which is yielded downstream
StreamChunk(r) ==
    /\ req[r].pc = "attempt"
    /\ req[r].yielded < MaxChunks
    /\ req' = [req EXCEPT ![r].yielded = @ + 1,
                          ![r].delivered = Append(@, req[r].yielded + 1)]
    /\ UNCHANGED <<sched_vars, vertex_vars, singleton_vars, now, lastCall, hist>>

\* the upstream ends the answer after its last chunk
StreamComplete(r) ==
    /\ req[r].pc = "attempt"
    /\ req[r].yielded = MaxChunks
    /\ req' = [req EXCEPT ![r].is_success = TRUE,
                          ![r].status_code = SUCCESS_STATUS_CODE,
                          ![r].pc = "done",
                          ![r].outcome = "completed"]
    /\ UNCHANGED <<sched_vars, vertex_vars, singleton_vars, now, lastCall, hist>>

\* mutant: the except block does not count the attempt
StreamFail_Uncounted(r, e) ==
    LET retries == req[r].retries
        R == handle_api_failure(Sched, req[r].api_key, retries, req[r].model, now)
        stop == R.ret = NoKey \/ retries >= MAX_RETRIES
    IN  /\ req[r].pc = "attempt"
        /\ WithinBounds(R)
        /\ Store(R)
        /\ lastCall' = Call("onFailure", req[r].api_key, retries, req[r].model, R, EmptyStatus)
        /\ req' = [req EXCEPT ![r] =
               [@ EXCEPT !.retries = retries,
                         !.is_success = FALSE,
                         !.status_code = StatusCodeOf(e),
                         !.api_key = R.ret,
                         !.yielded = IF stop THEN @ ELSE 0,
                         !.keys = IF stop THEN @ ELSE Append(@, R.ret),
                         !.pc = IF stop THEN "done" ELSE "attempt",
                         !.outcome = IF stop THEN "completed" ELSE @]]
        /\ UNCHANGED <<vertex_vars, singleton_vars, now, hist>>

\* the upstream raises e during the attempt: the except block and the loop test
StreamFail(r, e) ==
    LET retries == req[r].retries + 1
        R == handle_api_failure(Sched, req[r].api_key, retries, req[r].model, now)
        stop == R.ret = NoKey \/ retries >= MAX_RETRIES
    IN  /\ req[r].pc = "attempt"
        /\ WithinBounds(R)
        /\ Store(R)
        /\ lastCall' = Call("onFailure", req[r].api_key, retries, req[r].model, R, EmptyStatus)
        /\ req' = [req EXCEPT ![r] =
               [@ EXCEPT !.retries = retries,
                         !.is_success = FALSE,
                         !.status_code = StatusCodeOf(e),
                         !.api_key = R.ret,
                         !.yielded = IF stop THEN @ ELSE 0,
                         !.keys = IF stop THEN @ ELSE Append(@, R.ret),
                         !.pc = IF stop THEN "done" ELSE "attempt",
                         !.outcome = IF stop THEN "completed" ELSE @]]
        /\ UNCHANGED <<vertex_vars, singleton_vars, now, hist>>

InitDispatch == InitWith(Pools)

NextDispatch ==
    \/ \E r \in Reqs, m \in Models : Dispatch(r, m)
    \/ \E r \in Reqs : StreamChunk(r)
    \/ \E r \in Reqs : StreamComplete(r)
    \/ \E r \in Reqs, e \in Errors : StreamFail(r, e)
    \/ GetKeysByStatus

SpecDispatch == InitDispatch /\ [][NextDispatch]_vars

---------------------------------------------------------------------------
(* Reconfiguration: reset_key_manager_instance followed by                 *)
(* get_key_manager_instance with the new key lists.                        *)

Keys(list) == {list[i] : i \in 1..Len(list)}

\* mutant: every counter of the new scheduler starts at 0
InheritedCounts_AllZero(preserved, keys) == [k \in Keys(keys) |-> 0]

\* The failure counters of the new scheduler: those of __init__, replaced when a
\* non-empty map was preserved
InheritedCounts(preserved, keys) ==
    IF preserved # EmptyDict
    THEN [k \in Keys(keys) |-> IF k \in DOMAIN preserved THEN preserved[k] ELSE 0]
    ELSE [k \in Keys(keys) |-> 0]

\* The loop over the old list from start_idx_in_old on
RECURSIVE StartKeyFrom(_, _, _, _)
StartKeyFrom(old, start_idx_in_old, i, new) ==
    IF i >= Len(old) THEN NoKey
    ELSE LET key_candidate == old[((start_idx_in_old + i) % Len(old)) + 1]
         IN  IF InList(key_candidate, new) THEN key_candidate
             ELSE StartKeyFrom(old, start_idx_in_old, i + 1, new)

start_key_for_new_cycle(old, next_key, new) ==
    IF Len(old) > 0 /\ next_key # NoKey /\ Len(new) > 0 /\ InList(next_key, old)
    THEN StartKeyFrom(old, IndexOf(old, next_key), 0, new)
    ELSE NoKey

\* mutant: the new cycle always starts at the front of the new list
TargetIndex_Front(old, next_key, new) == 0

\* The cursor of the new scheduler
TargetIndex(old, next_key, new) ==
    LET start == start_key_for_new_cycle(old, next_key, new)
    IN  IF start # NoKey /\ Len(new) > 0 THEN IndexOf(new, start) ELSE 0

\* mutant: the windows of surviving keys are carried over
NewRequestTimes_Kept(keys) ==
    [k \in Keys(keys) |->
        IF k \in DOMAIN key_request_times THEN key_request_times[k] ELSE EmptyDict]

\* key_request_times as __init__ builds it
NewRequestTimes(keys) == [k \in Keys(keys) |-> EmptyDict]

\* reset_key_manager_instance.  get_next_vertex_key waits for
\* vertex_key_index_lock: when that lock is held the call never gets further, and
\* keeps _singleton_lock.
ResetKeyManagerInstance ==
    LET N == get_next_key(Sched)
        blocked == Len(vertex_api_keys) > 0 /\ vertex_key_index_lock
    IN  /\ ~_singleton_lock
        /\ _singleton_instance
        /\ _preserved_failure_counts' = key_failure_counts
        /\ _preserved_vertex_failure_counts' = vertex_key_failure_counts
        /\ _preserved_old_api_keys_for_reset' = api_keys
        /\ _preserved_vertex_old_api_keys_for_reset' = vertex_api_keys
        /\ _preserved_next_key_in_cycle' = N.ret
        /\ current_key_index' = N.index
        /\ IF blocked
           THEN /\ _singleton_lock' = TRUE
                /\ UNCHANGED <<_singleton_instance, _preserved_vertex_next_key_in_cycle,
                               current_vertex_key_index, handoff>>
           ELSE /\ _preserved_vertex_next_key_in_cycle' =
                       IF Len(vertex_api_keys) > 0
                       THEN vertex_api_keys[current_vertex_key_index + 1] ELSE NoKey
                /\ current_vertex_key_index' =
                       IF Len(vertex_api_keys) > 0
                       THEN (current_vertex_key_index + 1) % Len(vertex_api_keys)
                       ELSE current_vertex_key_index
                /\ _singleton_instance' = FALSE
                /\ handoff' = [phase |-> "reset", api_keys |-> api_keys,
                               index |-> current_key_index, fails |-> key_failure_counts,
                               times |-> key_request_times, first |-> NoKey]
                /\ UNCHANGED _singleton_lock
        /\ lastCall' = Call("reset", NoKey, 0, NoModel, Returned(Sched, N.ret, N.path),
                            EmptyStatus)
        /\ UNCHANGED <<api_keys, current_key, current_model, key_failure_counts,
                       key_request_times, rpm_limits, rpm_prefer_cache, rpm_window_seconds,
                       vertex_api_keys, current_vertex_key, vertex_key_failure_counts,
                       vertex_key_request_times, vertex_key_index_lock, lastVertexCall,
                       now, hist, req>>

\* get_key_manager_instance(keys, vkeys) while no instance exists: a new
\* KeyManager, then the preserved counters and cursors.  With an instance it
\* returns that instance and changes nothing.
GetKeyManagerInstance(keys, vkeys) ==
    /\ ~_singleton_lock
    /\ ~_singleton_instance
    /\ _singleton_instance' = TRUE
    /\ api_keys' = keys
    /\ vertex_api_keys' = vkeys
    /\ current_key' = NoKey
    /\ current_vertex_key' = NoKey
    /\ current_model' = NoModel
    /\ vertex_key_index_lock' = FALSE
    /\ key_request_times' = NewRequestTimes(keys)
    /\ vertex_key_request_times' = NewRequestTimes(vkeys)
    /\ key_failure_counts' = InheritedCounts(_preserved_failure_counts, keys)
    /\ vertex_key_failure_counts' = InheritedCounts(_preserved_vertex_failure_counts, vkeys)
    /\ current_key_index' = TargetIndex(_preserved_old_api_keys_for_reset,
                                        _preserved_next_key_in_cycle, keys)
    /\ current_vertex_key_index' = TargetIndex(_preserved_vertex_old_api_keys_for_reset,
                                               _preserved_vertex_next_key_in_cycle, vkeys)
    /\ _preserved_failure_counts' = EmptyDict
    /\ _preserved_vertex_failure_counts' = EmptyDict
    /\ _preserved_old_api_keys_for_reset' = <<>>
    /\ _preserved_vertex_old_api_keys_for_reset' = <<>>
    /\ _preserved_next_key_in_cycle' = NoKey
    /\ _preserved_vertex_next_key_in_cycle' = NoKey
    /\ handoff' = [handoff EXCEPT !.phase = "fresh"]
    /\ lastCall' = Call("getInstance", NoKey, 0, NoModel,
                        Returned(Sched, NoKey, "none"), EmptyStatus)
    /\ UNCHANGED <<rpm_limits, rpm_prefer_cache, rpm_window_seconds, _singleton_lock,
                   lastVertexCall, now, hist, req>>

\* get_next_working_key_with_rpm on the current instance; handoff notes the
\* first call on a new instance
ChooseHandoff(model) ==
    /\ _singleton_instance
    /\ ChooseCall(model)
    /\ handoff' = IF handoff.phase = "fresh"
                  THEN [handoff EXCEPT !.phase = "first", !.first = lastCall'.ret]
                  ELSE NoHandoff
    /\ UNCHANGED <<vertex_vars, _singleton_instance, _singleton_lock,
                   _preserved_failure_counts, _preserved_vertex_failure_counts,
                   _preserved_old_api_keys_for_reset,
                   _preserved_vertex_old_api_keys_for_reset,
                   _preserved_next_key_in_cycle, _preserved_vertex_next_key_in_cycle,
                   hist, req>>

\* the key just handed out by the current instance fails for good
FailureHandoff(api_key) ==
    /\ _singleton_instance
    /\ lastCall.op = "choose" /\ api_key = lastCall.ret
    /\ HandleApiFailure(api_key, MAX_RETRIES, NoModel)

\* get_first_valid_key: key_failure_counts is filled in the order of api_keys
RECURSIVE FirstValidFrom(_, _)
FirstValidFrom(S, i) ==
    IF i > Len(S.api_keys) THEN NoKey
    ELSE IF S.fails[S.api_keys[i]] < MAX_FAILURES THEN S.api_keys[i]
    ELSE FirstValidFrom(S, i + 1)

\* mutant: the first key of the pool, whatever its counter
get_first_valid_key_Front(S) ==
    IF Len(S.api_keys) > 0 THEN S.api_keys[1] ELSE NoKey

get_first_valid_key(S) ==
    LET found == FirstValidFrom(S, 1)
    IN  IF found # NoKey THEN found
        ELSE IF Len(S.api_keys) > 0 THEN S.api_keys[1]
        ELSE NoKey

GetFirstValidKey ==
    /\ _singleton_instance
    /\ lastCall' = Call("firstValid", NoKey, 0, NoModel,
                        Returned(Sched, get_first_valid_key(Sched), "none"), EmptyStatus)
    /\ UNCHANGED <<sched_vars, vertex_vars, singleton_vars, now, hist, req>>

ReconfigPools == {<<>>, <<"d">>, <<"a", "b", "c">>, <<"a", "c", "d">>}

InitReconfigure == InitWith(ReconfigPools)

NextReconfigure ==
    \/ \E m \in Models : ChooseHandoff(m)
    \/ \E k \in KeySet : FailureHandoff(k)
    \/ ResetKeyManagerInstance
    \/ \E keys \in ReconfigPools : GetKeyManagerInstance(keys, <<>>)
    \/ GetFirstValidKey

SpecReconfigure == InitReconfigure /\ [][NextReconfigure]_vars


---------------------------------------------------------------------------
(* The RPM snapshot, and the scheduler driven through the instants of the  *)
(* exhaustion and round-robin scenarios: limit 3, a window of 60 seconds.  *)

\* current_rpm / rpm_limit * 100, as a fraction
Percentage(current_rpm, rpm_limit) ==
    IF rpm_limit > 0 THEN [num |-> current_rpm * 100, den |-> rpm_limit]
    ELSE [num |-> 0, den |-> 1]

\* The windows of one pool after get_rpm_status cleaned each of them
CleanedAll(times, t) ==
    [k \in DOMAIN times |->
        [m \in DOMAIN times[k] |->
            _clean_old_requests(times[k][m], t, rpm_window_seconds)]]

\* The key_status entries of one pool
KeyStatus(keys, times, fails, cur, limits, t) ==
    [k \in Keys(keys) |->
        [models |->
            [m \in DOMAIN times[k] |->
                LET current_rpm == Len(CleanedAll(times, t)[k][m])
                    rpm_limit == _get_rpm_limit_for_model(limits, m)
                IN  [current_rpm |-> current_rpm,
                     rpm_limit |-> rpm_limit,
                     usage_percentage |-> Percentage(current_rpm, rpm_limit)]],
         is_current |-> k = cur,
         failure_count |-> fails[k]]]

\* The dict get_rpm_status(model) returns at time t; model_rpm_limit is 0 when
\* no model is given
get_rpm_status(S, model, t) ==
    [api_keys |-> KeyStatus(S.api_keys, S.times, S.fails, S.current_key, S.limits, t),
     vertex_keys |-> KeyStatus(vertex_api_keys, vertex_key_request_times,
                               vertex_key_failure_counts, current_vertex_key,
                               S.limits, t),
     current_model |-> S.current_model,
     rpm_window_seconds |-> rpm_window_seconds,
     rpm_prefer_cache |-> S.prefer,
     rpm_limits |-> S.limits,
     model_rpm_limit |-> IF model # NoModel
                         THEN _get_rpm_limit_for_model(S.limits, model) ELSE 0]

GetRpmStatus(model) ==
    /\ lastCall' = Call("rpmStatus", NoKey, 0, model, Returned(Sched, NoKey, "none"),
                        get_rpm_status(Sched, model, now))
    /\ key_request_times' = CleanedAll(key_request_times, now)
    /\ vertex_key_request_times' = CleanedAll(vertex_key_request_times, now)
    /\ UNCHANGED <<api_keys, current_key_index, current_key, current_model,
                   key_failure_counts, rpm_limits, rpm_prefer_cache, rpm_window_seconds,
                   vertex_api_keys, current_vertex_key_index, current_vertex_key,
                   vertex_key_failure_counts, vertex_key_index_lock, lastVertexCall,
                   singleton_vars, now, hist, req>>

MaxCalls == 6           \* calls of get_next_working_key_with_rpm in one scenario

\* The instants of the scenarios, the first instant at which the request of
\* t=0 has left the window, and the first at which all of them have
Instants == {0, 1, 2, 3, 61, 64}

\* the clock moves on to a later instant
TickTo(t) ==
    /\ t > now
    /\ now' = t
    /\ UNCHANGED <<sched_vars, vertex_vars, singleton_vars, lastCall, hist, req>>

\* get_next_working_key_with_rpm; hist lists the keys returned since construction
ChooseLogged(model) ==
    /\ Len(hist) < MaxCalls
    /\ ChooseCall(model)
    /\ hist' = Append(hist, lastCall'.ret)
    /\ UNCHANGED <<vertex_vars, singleton_vars, req>>

ScenarioLimits == << [name |-> FlashModel, limit |-> 3] >>

ScenarioPools == {<<"k1">>, <<"a", "b", "c">>}

InitScenario ==
    /\ \E keys \in ScenarioPools, prefer \in BOOLEAN :
           KeyManagerInit(keys, <<>>, ScenarioLimits, 60, prefer)
    /\ SingletonInit
    /\ HistoryInit

NextScenario ==
    \/ \E t \in Instants : TickTo(t)
    \/ \E m \in Models : ChooseLogged(m)
    \/ \E m \in Models \cup {NoModel} : GetRpmStatus(m)

SpecScenario == InitScenario /\ [][NextScenario]_vars


---------------------------------------------------------------------------
(* The auxiliary (Vertex) pool, given the same keys and driven by the same *)
(* calls as the primary pool.                                              *)

\* The auxiliary pool as a scheduler record
VertexSched ==
    [api_keys |-> vertex_api_keys, index |-> current_vertex_key_index,
     current_key |-> current_vertex_key, current_model |-> current_model,
     fails |-> vertex_key_failure_counts, times |-> vertex_key_request_times,
     limits |-> rpm_limits, prefer |-> rpm_prefer_cache]

\* get_next_working_vertex_key_with_rpm(model) at time t, under
\* vertex_key_index_lock.  The cache path returns inside the lock.  Otherwise
\* the call awaits get_next_vertex_key, which waits for the same lock: an
\* asyncio.Lock has no owner and is not reentrant, so the call never gets
\* further and the lock stays held ("blocked").
get_next_working_vertex_key_with_rpm(V, locked, model, t) ==
    LET try_cache == V.prefer /\ V.current_key # NoKey
        timesC == IF try_cache THEN Cleaned(V.times, V.current_key, model, t)
                  ELSE V.times
    IN  IF locked
        THEN [V |-> V, locked |-> TRUE, ret |-> NoKey, path |-> "blocked"]
        ELSE IF /\ try_cache
                /\ is_key_valid(V.fails, V.current_key)
                /\ is_key_within_rpm_limit(V.times, V.limits, V.current_key, model, t)
        THEN [V |-> [V EXCEPT !.times = _record_request(timesC, V.current_key, model, t)],
              locked |-> FALSE, ret |-> V.current_key, path |-> "cache"]
        ELSE [V |-> V, locked |-> TRUE, ret |-> NoKey, path |-> "blocked"]

\* handle_vertex_api_failure(api_key, retries): the counter, and no new key
handle_vertex_api_failure(fails, api_key) ==
    [fails EXCEPT ![api_key] = @ + 1]

\* The same call on both pools at the same instant
ChooseBoth(model) ==
    LET R == get_next_working_vertex_key_with_rpm(VertexSched, vertex_key_index_lock,
                                                 model, now)
    IN  /\ ChooseCall(model)
        /\ vertex_key_request_times' = R.V.times
        /\ vertex_key_index_lock' = R.locked
        /\ lastVertexCall' = [op |-> "choose", ret |-> R.ret, path |-> R.path]
        /\ UNCHANGED <<vertex_api_keys, current_vertex_key_index, current_vertex_key,
                       vertex_key_failure_counts, singleton_vars, hist, req>>

\* The key just handed out by the primary pool fails for good on both pools
FailBoth(api_key) ==
    /\ lastCall.op = "choose" /\ api_key = lastCall.ret
    /\ FailureCall(api_key, MAX_RETRIES, NoModel)
    /\ vertex_key_failure_counts[api_key] < MaxFailCount
    /\ vertex_key_failure_counts' =
           handle_vertex_api_failure(vertex_key_failure_counts, api_key)
    /\ lastVertexCall' = [op |-> "onFailure", ret |-> NoKey, path |-> "none"]
    /\ UNCHANGED <<vertex_api_keys, current_vertex_key_index, current_vertex_key,
                   vertex_key_request_times, vertex_key_index_lock, singleton_vars,
                   hist, req>>

InitVertex ==
    /\ \E keys \in SmallPools, prefer \in BOOLEAN :
           KeyManagerInit(keys, keys, LimitsConfig, RPM_WINDOW_SECONDS, prefer)
    /\ SingletonInit
    /\ HistoryInit

NextVertex ==
    \/ Tick
    \/ \E m \in Models : ChooseBoth(m)
    \/ \E k \in KeySet : FailBoth(k)

SpecVertex == InitVertex /\ [][NextVertex]_vars


---------------------------------------------------------------------------
(* Properties *)

Limit(model) == _get_rpm_limit_for_model(rpm_limits, model)

\* the count of (key, model) a call made in the current state finds
CountBefore(key, model) == _get_rpm_count(key_request_times, key, model, now)

\* the window of (key, model) in the next state
WindowAfter(key, model) == Entry(key_request_times'[key], model)

\* the window of (key, model) as a call in the current state finds it, after cleaning
WindowBefore(key, model) == Entry(Cleaned(key_request_times, key, model, now)[key], model)

\* A step that is a call of get_next_working_key_with_rpm with the model lastCall
\* records
ChooseStep ==
    /\ lastCall'.op = "choose"
    /\ now' = now
    /\ Choose(lastCall'.model)

\* A step that is a call of handle_api_failure with the arguments lastCall records
FailureStep ==
    /\ lastCall'.op = "onFailure"
    /\ now' = now
    /\ HandleApiFailure(lastCall'.key, lastCall'.retries, lastCall'.model)

\* A step in which a key is selected for a model under the RPM rules: a call of
\* get_next_working_key_with_rpm, directly or from handle_api_failure
SelectStep ==
    \/ ChooseStep
    \/ FailureStep /\ lastCall'.path \in {"cache", "scan", "least", "forced"}

NoDuplicates(seq) == \A i, j \in 1..Len(seq) : i # j => seq[i] # seq[j]

HistKeys == hist

HistFull == Len(hist) = Len(api_keys) + 1

\* C1 as stated: whenever n + 1 successive choose(M) calls each found every key of
\* the pool healthy and under its limit, the first n returned n distinct keys and
\* the last returned the key of the first.
C1_CursorAdvanceAnyConfig ==
    HistFull =>
        /\ NoDuplicates(SubSeq(HistKeys, 1, Len(api_keys)))
        /\ HistKeys[Len(api_keys) + 1] = HistKeys[1]

\* C1 amended: the same, with RPM_PREFER_CACHE=false.
C1_CursorAdvance ==
    (HistFull /\ ~rpm_prefer_cache) =>
        /\ NoDuplicates(SubSeq(HistKeys, 1, Len(api_keys)))
        /\ {HistKeys[i] : i \in 1..Len(api_keys)} = KeySet
        /\ HistKeys[Len(api_keys) + 1] = HistKeys[1]

C1_Witness ==
    /\ HistFull
    /\ ~rpm_prefer_cache
    /\ Len(api_keys) = 3
    /\ current_key_index # 1

\* C2: with RPM_PREFER_CACHE=true, a choose(M) that finds a cached key that is not
\* disabled and whose count for M is below the limit returns that key, leaves the
\* cursor and the cached key as they were and appends one request to its window.
C2_CacheAffinity ==
    [][(/\ ChooseStep
        /\ rpm_prefer_cache
        /\ current_key # NoKey
        /\ key_failure_counts[current_key] < MAX_FAILURES
        /\ CountBefore(current_key, lastCall'.model) < Limit(lastCall'.model))
       => /\ lastCall'.ret = current_key
          /\ current_key_index' = current_key_index
          /\ current_key' = current_key
          /\ WindowAfter(current_key, lastCall'.model) =
                 Append(WindowBefore(current_key, lastCall'.model), now)
          /\ \A k \in KeySet \ {current_key} :
                 key_request_times'[k] = key_request_times[k]]_vars

\* the cached key was returned twice in a row and is now at its limit
C2_Witness ==
    /\ rpm_prefer_cache
    /\ lastCall.op = "choose"
    /\ lastCall.path = "cache"
    /\ lastCall.ret = current_key
    /\ CountBefore(current_key, FlashModel) = Limit(FlashModel)
    /\ Len(api_keys) = 2

\* C3: a key whose count for M before the call is at or over the limit is not
\* returned by the cache path or the scan; it is returned only when no key of the
\* pool is both non-disabled and under the limit.
C3_LimitEnforcement ==
    [][(SelectStep /\ CountBefore(lastCall'.ret, current_model') >= Limit(current_model'))
       => /\ lastCall'.path \in {"least", "forced"}
          /\ \A k \in KeySet :
                 ~(/\ key_failure_counts'[k] < MAX_FAILURES
                   /\ CountBefore(k, current_model') < Limit(current_model'))]_vars

\* the least-loaded fallback returned a key that was at its limit, in a pool of two
C3_Witness ==
    /\ lastCall.op = "choose"
    /\ lastCall.path = "least"
    /\ Len(api_keys) = 2
    /\ Len(Entry(key_request_times[lastCall.ret], FlashModel)) = Limit(FlashModel) + 1

\* C4: a call that returns a key whose failure counter is at MAX_FAILURES or more
\* happens only when every key of the pool is disabled; a reset makes the key
\* valid again.
C4_DisabledKeySkipped ==
    [][/\ ((ChooseStep \/ FailureStep)
           /\ lastCall'.ret # NoKey
           /\ key_failure_counts'[lastCall'.ret] >= MAX_FAILURES)
          => \A k \in KeySet : key_failure_counts'[k] >= MAX_FAILURES
       /\ (lastCall'.op = "resetKey" /\ lastCall'.key \in KeySet)
          => key_failure_counts'[lastCall'.key] < MAX_FAILURES]_vars

\* a choose passed over the disabled key of a pool of two, whose turn it was
C4_Witness ==
    /\ Len(api_keys) = 2
    /\ lastCall.op = "choose"
    /\ \E k \in KeySet :
          /\ key_failure_counts[k] >= MAX_FAILURES
          /\ lastCall.ret # k
          /\ key_failure_counts[lastCall.ret] < MAX_FAILURES
          /\ api_keys[current_key_index + 1] = k
          /\ lastCall.path = "scan"

\* C5: get_keys_by_status partitions the pool: a key is in invalid_keys iff its
\* counter is at MAX_FAILURES or more and in valid_keys otherwise, each with its
\* current counter.
C5_ClassifyPartition ==
    lastCall.op = "classify" =>
        LET st == lastCall.status
        IN  /\ DOMAIN st.valid_keys \cap DOMAIN st.invalid_keys = {}
            /\ DOMAIN st.valid_keys \cup DOMAIN st.invalid_keys = KeySet
            /\ \A k \in KeySet :
                   /\ (k \in DOMAIN st.invalid_keys) <=> (key_failure_counts[k] >= MAX_FAILURES)
                   /\ k \in DOMAIN st.invalid_keys => st.invalid_keys[k] = key_failure_counts[k]
                   /\ k \in DOMAIN st.valid_keys => st.valid_keys[k] = key_failure_counts[k]

\* pool [a,b,c], a failed twice: invalid={a:2}, valid={b:0,c:0}
C5_Witness ==
    /\ lastCall.op = "classify"
    /\ api_keys = <<"a", "b", "c">>
    /\ DOMAIN lastCall.status.invalid_keys = {"a"}
    /\ lastCall.status.invalid_keys["a"] = 2
    /\ DOMAIN lastCall.status.valid_keys = {"b", "c"}
    /\ lastCall.status.valid_keys["b"] = 0
    /\ lastCall.status.valid_keys["c"] = 0

\* C6: in a pool of more than one key, the key handle_api_failure returns for the
\* next attempt differs from the key that failed.
C6_RetryRotation ==
    (lastCall.op = "onFailure" /\ Len(api_keys) > 1 /\ lastCall.ret # NoKey)
    => lastCall.ret # lastCall.key

\* C7: pool [a,b,c], MAX_RETRIES=3, a fresh scheduler: the one request whose
\* upstream failed twice and then succeeded used a, b, c in this order and left
\* the failure counters a=1, b=1, c=0.
C7_RetryScenario ==
    \A r \in Reqs :
        (/\ api_keys = <<"a", "b", "c">>
         /\ MAX_RETRIES = 3
         /\ \A o \in Reqs \ {r} : req[o].pc = "idle"
         /\ req[r].pc = "done"
         /\ req[r].is_success
         /\ req[r].retries = 2)
        => /\ req[r].keys = <<"a", "b", "c">>
           /\ key_failure_counts = [k \in KeySet |-> IF k = "c" THEN 0 ELSE 1]

C7_Witness ==
    /\ api_keys = <<"a", "b", "c">>
    /\ rpm_prefer_cache
    /\ req["r2"].pc = "idle"
    /\ req["r1"].pc = "done"
    /\ req["r1"].is_success
    /\ req["r1"].retries = 2
    /\ req["r1"].keys = <<"a", "b", "c">>

\* C8: handle_api_failure(k, attempt, M) adds exactly 1 to the counter of k and
\* changes no other counter; with attempt >= MAX_RETRIES it returns no key and
\* leaves the cursor, the cached key and every window as they were; with
\* attempt < MAX_RETRIES the cached key is not reused: the key returned comes from
\* the scan, the fallback or the forced path, is cached and has the request
\* recorded.
C8_OnFailureEffect ==
    [][(FailureStep /\ lastCall'.model # NoModel)
       => LET k == lastCall'.key
              n == lastCall'.retries
              m == lastCall'.model
          IN  /\ key_failure_counts' =
                     [key_failure_counts EXCEPT ![k] = key_failure_counts[k] + 1]
              /\ n >= MAX_RETRIES =>
                     /\ lastCall'.ret = NoKey
                     /\ current_key_index' = current_key_index
                     /\ current_key' = current_key
                     /\ key_request_times' = key_request_times
              /\ n < MAX_RETRIES =>
                     /\ lastCall'.path \in {"scan", "least", "forced"}
                     /\ lastCall'.ret \in KeySet
                     /\ current_key' = lastCall'.ret
                     /\ WindowAfter(lastCall'.ret, m) =
                            Append(WindowBefore(lastCall'.ret, m), now)]_vars

\* the cached key failed, was still valid and under its limit, and yet another
\* key was selected by the scan
C8_Witness ==
    /\ lastCall.op = "onFailure"
    /\ rpm_prefer_cache
    /\ lastCall.path = "scan"
    /\ lastCall.ret # lastCall.key
    /\ key_failure_counts[lastCall.key] = 1
    /\ Len(Entry(key_request_times[lastCall.key], FlashModel)) = 1

\* C9: a request all of whose attempts failed ends with an error raised to its
\* caller, never as a stream that completed.
C9_ExhaustedIsSurfaced ==
    \A r \in Reqs :
        (req[r].pc = "done" /\ ~req[r].is_success) => req[r].outcome = "raised"

\* C10: no chunk of the upstream answer is yielded downstream twice.
C10_NoDoubleDelivery ==
    \A r \in Reqs : NoDuplicates(req[r].delivered)

\* The key the old cursor was about to yield if the new pool has it, else the
\* first key after it in the old cyclic order that the new pool has, else the
\* first key of the new pool
ExpectedFirst(old, index, new) ==
    LET order == [i \in 1..Len(old) |-> old[((index + i - 1) % Len(old)) + 1]]
        surviving == {i \in 1..Len(old) : InList(order[i], new)}
    IN  IF surviving # {} THEN order[Min(surviving)] ELSE new[1]

\* C11 as stated: the first choose on the new scheduler returns the key the old
\* cursor was about to yield, or the next surviving key of the old order, or
\* the first key of the new list.
C11_ReconfigureCursorAnyHealth ==
    (handoff.phase = "first" /\ Len(api_keys) > 0) =>
        handoff.first = ExpectedFirst(handoff.api_keys, handoff.index, api_keys)

\* C11 amended: the new cursor is on that key, and the first choose returns it
\* when its inherited failure counter is below MAX_FAILURES; old [a,b,c] with
\* the cursor at b and new [a,c,d] gives c.
C11_ReconfigureCursor ==
    LET e == ExpectedFirst(handoff.api_keys, handoff.index, api_keys)
    IN  /\ (handoff.phase = "fresh" /\ Len(api_keys) > 0) =>
               api_keys[current_key_index + 1] = e
        /\ (handoff.phase = "first" /\ Len(api_keys) > 0
               /\ key_failure_counts[e] < MAX_FAILURES) =>
               handoff.first = e
        /\ (handoff.phase = "first" /\ handoff.api_keys = <<"a", "b", "c">>
               /\ handoff.index = 1 /\ api_keys = <<"a", "c", "d">>
               /\ key_failure_counts["c"] < MAX_FAILURES) =>
               handoff.first = "c"

\* old [a,b,c] with the cursor at b was replaced by [a,c,d] and the first choose made
C11_Witness ==
    /\ handoff.phase = "first"
    /\ handoff.api_keys = <<"a", "b", "c">>
    /\ handoff.index = 1
    /\ api_keys = <<"a", "c", "d">>
    /\ handoff.first = "c"

\* The example of C12, with a, b, c, d for k1, k2, k3, k4
C12_Example ==
    /\ handoff.phase = "first"
    /\ lastCall.op = "choose"
    /\ handoff.api_keys = <<"a", "b", "c">>
    /\ handoff.index = 1
    /\ handoff.fails = ("a" :> 1) @@ ("b" :> 0) @@ ("c" :> 2)
    /\ api_keys = <<"a", "c", "d">>
    /\ key_failure_counts = ("a" :> 1) @@ ("c" :> 2) @@ ("d" :> 0)

C13_WindowsDiscarded ==
    lastCall.op = "getInstance" =>
        \A k \in KeySet :
            /\ key_request_times[k] = EmptyDict
            /\ \A m \in Models \cup {ProModel} :
                   _get_rpm_count(key_request_times, k, m, now) = 0

\* a key with requests in its window survived the reconfigure
C13_Witness ==
    /\ lastCall.op = "getInstance"
    /\ \E k \in KeySet \cap DOMAIN handoff.times :
           Len(Entry(handoff.times[k], FlashModel)) > 0

\* A step that is a call of get_next_working_key_with_rpm on the current instance
ChooseHandoffStep ==
    /\ lastCall'.op = "choose"
    /\ ChooseHandoff(lastCall'.model)

\* C19: on a non-empty pool choose(M) returns a key of the pool; on an empty pool
\* it returns the empty string and leaves the cursor, the cached key and the
\* RPM windows as they were.
C19_ChooseReturnsMember ==
    [][ChooseHandoffStep =>
          /\ Len(api_keys) > 0 => lastCall'.ret \in KeySet
          /\ Len(api_keys) = 0 =>
                 /\ lastCall'.ret = NoKey
                 /\ current_key_index' = current_key_index
                 /\ current_key' = current_key
                 /\ key_request_times' = key_request_times]_vars

\* a choose on the empty pool that followed a reconfigure
C19_Witness ==
    /\ lastCall.op = "choose"
    /\ Len(api_keys) = 0
    /\ lastCall.ret = NoKey
    /\ handoff.phase = "first"

\* a choose on a pool whose keys were all disabled
C19_WitnessForced ==
    /\ lastCall.op = "choose"
    /\ Len(api_keys) = 3
    /\ lastCall.path = "forced"
    /\ lastCall.ret \in KeySet

\* The first key in pool order whose counter is below MAX_FAILURES, else the
\* first key, else the empty string
FirstValidOf(keys, fails) ==
    LET valid == {i \in 1..Len(keys) : fails[keys[i]] < MAX_FAILURES}
    IN  IF valid # {} THEN keys[Min(valid)]
        ELSE IF Len(keys) > 0 THEN keys[1]
        ELSE NoKey

\* C20: get_first_valid_key returns the first key in pool order whose counter is
\* below MAX_FAILURES, the first key if all are disabled, "" for an empty pool,
\* and changes no scheduler state.
C20_FirstValid ==
    [][(lastCall'.op = "firstValid" /\ lastCall' # lastCall) =>
          /\ lastCall'.ret = FirstValidOf(api_keys, key_failure_counts)
          /\ UNCHANGED <<sched_vars, vertex_vars>>]_vars

\* the first key was disabled and a later one returned
C20_Witness ==
    /\ lastCall.op = "firstValid"
    /\ Len(api_keys) = 3
    /\ key_failure_counts[api_keys[1]] >= MAX_FAILURES
    /\ lastCall.ret # api_keys[1]

\* A step that is a logged call of get_next_working_key_with_rpm
ChooseLoggedStep ==
    /\ lastCall'.op = "choose"
    /\ now' = now
    /\ ChooseLogged(lastCall'.model)

\* The snapshot entry of (key, model) taken right after the step
SnapshotAfter(key, model) ==
    get_rpm_status([Sched EXCEPT !.times = key_request_times',
                                 !.current_key = current_key',
                                 !.current_model = current_model'],
                   model, now').api_keys[key].models[model]

\* The single-key scenario: pool [k1], limit 3, W=60, prefer-cache on
SingleKey ==
    /\ api_keys = <<"k1">>
    /\ rpm_prefer_cache
    /\ rpm_window_seconds = 60
    /\ Limit(FlashModel) = 3

\* Three calls at t=0,1,2 returned k1 and the clock is at 3
FourthCall ==
    /\ SingleKey
    /\ hist = <<"k1", "k1", "k1">>
    /\ Entry(key_request_times["k1"], FlashModel) = <<0, 1, 2>>
    /\ now = 3

\* C14 as stated: the fourth choose at t=3 returns k1 through the forced path,
\* and the snapshot shows current_rpm=4, above 100%.
C14_ExhaustionForced ==
    [][(FourthCall /\ ChooseLoggedStep) =>
          /\ lastCall'.ret = "k1"
          /\ lastCall'.path = "forced"
          /\ SnapshotAfter("k1", FlashModel).current_rpm = 4]_vars

\* C14 amended: the fourth choose at t=3 returns k1 through the least-loaded
\* fallback, k1 being healthy, and the snapshot shows current_rpm=4, above 100%.
C14_Exhaustion ==
    [][(FourthCall /\ ChooseLoggedStep) =>
          LET snap == SnapshotAfter("k1", FlashModel)
          IN  /\ lastCall'.ret = "k1"
              /\ lastCall'.path = "least"
              /\ snap.current_rpm = 4
              /\ snap.rpm_limit = 3
              /\ snap.usage_percentage.num > 100 * snap.usage_percentage.den]_vars

\* the fourth call was made at t=3
C14_Witness ==
    /\ SingleKey
    /\ lastCall.op = "choose"
    /\ hist = <<"k1", "k1", "k1", "k1">>
    /\ Entry(key_request_times["k1"], FlashModel) = <<0, 1, 2, 3>>
    /\ now = 3

\* Requests were recorded at t=0,1,2,3
FifthCall ==
    /\ SingleKey
    /\ hist = <<"k1", "k1", "k1", "k1">>
    /\ Entry(key_request_times["k1"], FlashModel) = <<0, 1, 2, 3>>

\* C15 as stated: a choose at t=61 returns k1 and the snapshot right after it
\* shows current_rpm=1.
C15_AfterWindowOne ==
    [][(FifthCall /\ now = 61 /\ ChooseLoggedStep) =>
          /\ lastCall'.ret = "k1"
          /\ SnapshotAfter("k1", FlashModel).current_rpm = 1]_vars

\* C15 amended: a choose at t=61 returns k1 and the snapshot right after it
\* shows current_rpm=4, only the request of t=0 being older than now - W; the
\* snapshot shows current_rpm=1 when the call comes at t=64.
C15_AfterWindow ==
    [][(FifthCall /\ ChooseLoggedStep) =>
          /\ lastCall'.ret = "k1"
          /\ now = 61 => SnapshotAfter("k1", FlashModel).current_rpm = 4
          /\ now = 64 => SnapshotAfter("k1", FlashModel).current_rpm = 1]_vars

\* the fifth call was made at t=61
C15_Witness ==
    /\ SingleKey
    /\ lastCall.op = "choose"
    /\ hist = <<"k1", "k1", "k1", "k1", "k1">>
    /\ Entry(key_request_times["k1"], FlashModel) = <<1, 2, 3, 61>>
    /\ now = 61

\* C16: with RPM_PREFER_CACHE=false, pool [a,b,c], all keys healthy and no limit
\* reached, the calls made since construction return a,b,c,a,b,c in turn: each
\* returns the key at the cursor and moves the cursor on by one modulo 3.
C16_RoundRobin ==
    (api_keys = <<"a", "b", "c">> /\ ~rpm_prefer_cache) =>
        /\ \A i \in 1..Len(hist) : hist[i] = api_keys[((i - 1) % 3) + 1]
        /\ current_key_index = Len(hist) % 3
        /\ Len(hist) = 6 => hist = <<"a", "b", "c", "a", "b", "c">>

\* six calls were made
C16_Witness ==
    /\ api_keys = <<"a", "b", "c">>
    /\ ~rpm_prefer_cache
    /\ hist = <<"a", "b", "c", "a", "b", "c">>

\* The timestamps of a window that are not older than t - rpm_window_seconds
Recent(window, t) ==
    LET keep(ts) == ts >= t - rpm_window_seconds
    IN  SelectSeq(window, keep)

\* C17: count(key, model) leaves in the window the timestamps not older than
\* now - W and returns their number: 0 once L requests of t=0 are more than W
\* old, and 0 for a pair never used.
C17_WindowCount ==
    \A k \in KeySet :
        /\ \A m \in Models :
               LET window == Entry(key_request_times[k], m)
               IN  /\ Entry(Cleaned(key_request_times, k, m, now)[k], m) = Recent(window, now)
                   /\ _get_rpm_count(key_request_times, k, m, now) = Len(Recent(window, now))
                   /\ ((\A i \in 1..Len(window) : window[i] = 0) /\ now > rpm_window_seconds)
                          => _get_rpm_count(key_request_times, k, m, now) = 0
        /\ ProModel \notin DOMAIN key_request_times[k]
        /\ _get_rpm_count(key_request_times, k, ProModel, now) = 0

\* L = 3 requests were recorded on k1 at t=0 and the clock is past W
C17_Witness ==
    /\ api_keys = <<"k1">>
    /\ Entry(key_request_times["k1"], FlashModel) = <<0, 0, 0>>
    /\ now = 61

\* C18: the same call on the auxiliary pool returns the same key as on the
\* primary pool and leaves the same cursor, cached key and RPM windows.
C18_AuxiliaryEquivalent ==
    (lastCall.op = "choose" /\ lastVertexCall.op = "choose") =>
        /\ lastVertexCall.ret = lastCall.ret
        /\ current_vertex_key_index = current_key_index
        /\ current_vertex_key = current_key
        /\ vertex_key_request_times = key_request_times

---------------------------------------------------------------------------
(* The operator's resets: reset_key_failure_count for the keys of the pool  *)
(* and for a key that is not in it, and reset_failure_counts, between calls *)
(* of the scheduler and failures of the key it handed out.                  *)

\* A key that no pool holds
StrangerKey == "zz"

\* handle_api_failure for the key the scheduler just handed out
FailureOfHandedOut ==
    /\ lastCall.op = "choose"
    /\ lastCall.ret # NoKey
    /\ \E n \in Attempts : HandleApiFailure(lastCall.ret, n, lastCall.model)

NextReset ==
    \/ Tick
    \/ \E m \in Models : Choose(m)
    \/ FailureOfHandedOut
    \/ \E k \in KeySet \cup {StrangerKey} : ResetKeyFailureCount(k)
    \/ ResetFailureCounts

SpecReset == Init /\ [][NextReset]_vars

\* A step that is a call of reset_key_failure_count with the key lastCall records
ResetKeyStep ==
    /\ lastCall'.op = "resetKey"
    /\ now' = now
    /\ ResetKeyFailureCount(lastCall'.key)

\* A step that is a call of reset_failure_counts
ResetAllStep ==
    /\ lastCall'.op = "resetAll"
    /\ now' = now
    /\ ResetFailureCounts

\* What no reset touches: the pool, the cursor, the cached key, the RPM windows
ResetFrame ==
    UNCHANGED <<api_keys, current_key_index, current_key, current_model,
                key_request_times, rpm_limits, rpm_prefer_cache>>

\* C21: resetFailures(k) sets the counter of k to 0 and reports success, leaving
\* every other counter, the cursor, the cached key and the RPM windows as they
\* were; for a key that is not in the pool it reports failure and changes
\* nothing; resetFailures() sets every counter to 0 and changes nothing else.
C21_ResetFailures ==
    [][/\ (ResetKeyStep /\ lastCall'.key \in KeySet) =>
              /\ key_failure_counts' = [key_failure_counts EXCEPT ![lastCall'.key] = 0]
              /\ lastCall'.path = "reset"
              /\ ResetFrame
       /\ (ResetKeyStep /\ lastCall'.key \notin KeySet) =>
              /\ key_failure_counts' = key_failure_counts
              /\ lastCall'.path = "missing"
              /\ ResetFrame
       /\ ResetAllStep =>
              /\ key_failure_counts' = [k \in KeySet |-> 0]
              /\ ResetFrame]_vars

\* the counter of a was reset while b stays disabled, a key is cached and a
\* window holds a request
C21_Witness ==
    /\ lastCall.op = "resetKey"
    /\ lastCall.key = "a"
    /\ lastCall.path = "reset"
    /\ api_keys = <<"a", "b">>
    /\ key_failure_counts["b"] >= MAX_FAILURES
    /\ current_key # NoKey
    /\ \E m \in Models : Len(Entry(key_request_times["a"], m)) > 0

\* a reset was asked for a key that is not in the pool while a key is disabled
C21_WitnessMissing ==
    /\ lastCall.op = "resetKey"
    /\ lastCall.path = "missing"
    /\ \E k \in KeySet : key_failure_counts[k] >= MAX_FAILURES

---------------------------------------------------------------------------
(* _get_rpm_limit_for_model over the RPM_LIMITS maps made of up to three    *)
(* entries in every order, asked through get_rpm_status(model) for models   *)
(* with and without an entry of their own.                                  *)

FlashLiteEntry == <<"f", "l", "a", "s", "h", "-", "l", "i", "t", "e">>

\* Models without an entry of their own: a flash model, a flash-lite model, an
\* upper-case pro model and a model of no family
FlashPreview == <<"f", "l", "a", "s", "h", "-", "x">>
FlashLitePreview == <<"f", "l", "a", "s", "h", "-", "l", "i", "t", "e", "-", "x">>
UpperProModel == <<"P", "R", "O">>
OtherModel == <<"x">>

LimitModels == {FlashModel, FlashPreview, FlashLitePreview, UpperProModel, OtherModel}

\* The entries RPM_LIMITS is made of, each with a limit of its own
LimitEntries ==
    {[name |-> FlashModel, limit |-> 2], [name |-> GProEntry, limit |-> 1],
     [name |-> FlashLiteEntry, limit |-> 3]}

\* RPM_LIMITS: every list without repetition of entries of LimitEntries
LimitMaps ==
    {limits \in UNION {[1..n -> LimitEntries] : n \in 0..Cardinality(LimitEntries)} :
        NoDuplicates(limits)}

InitLimit ==
    /\ \E limits \in LimitMaps, prefer \in BOOLEAN :
           KeyManagerInit(<<"a">>, <<>>, limits, RPM_WINDOW_SECONDS, prefer)
    /\ SingletonInit
    /\ HistoryInit

NextLimit ==
    \/ Tick
    \/ \E m \in Models : Choose(m)
    \/ \E m \in LimitModels : GetRpmStatus(m)

SpecLimit == InitLimit /\ [][NextLimit]_vars

\* The entries of a map as a set
EntrySet(limits) == {limits[i] : i \in 1..Len(limits)}

\* The entries of the family of a model: lite entries for a model containing
\* lite, flash entries that are not flash-lite entries for a model containing
\* flash but not lite, pro entries for a model containing pro
FamilyEntries(limits, model) ==
    {e \in EntrySet(limits) :
        LET parts == split(lower(e.name))
            m == lower(model)
        IN  \/ InList(Lite, parts) /\ Contains(m, Lite)
            \/ InList(Flash, parts) /\ ~InList(Lite, parts)
                   /\ Contains(m, Flash) /\ ~Contains(m, Lite)
            \/ InList(Pro, parts) /\ Contains(m, Pro)}

\* The limit get_rpm_status(model) reported
ReportedLimit == lastCall.status.model_rpm_limit

\* C22: limitFor(model) is the limit of the entry named model when there is
\* one; otherwise the limit of an entry of the family of the model, a flash
\* model never getting the limit of a flash-lite entry; otherwise the least
\* limit of the map, or 10 when the map is empty; and it is the same for
\* every order of the entries of the map.
C22_LimitFor ==
    (lastCall.op = "rpmStatus" /\ lastCall.model # NoModel) =>
        LET model == lastCall.model
            exact == {e \in EntrySet(rpm_limits) : e.name = model}
            family == FamilyEntries(rpm_limits, model)
        IN  /\ exact # {} => \E e \in exact : ReportedLimit = e.limit
            /\ (exact = {} /\ family # {}) => \E e \in family : ReportedLimit = e.limit
            /\ (exact = {} /\ family = {} /\ rpm_limits # <<>>) =>
                   ReportedLimit = Min({e.limit : e \in EntrySet(rpm_limits)})
            /\ (exact = {} /\ family = {} /\ rpm_limits = <<>>) =>
                   ReportedLimit = DEFAULT_RPM_LIMIT
            /\ \A other \in LimitMaps :
                   EntrySet(other) = EntrySet(rpm_limits) =>
                       _get_rpm_limit_for_model(other, model) = ReportedLimit

\* What holds of limitFor in every order of the map: the exact entry, the least
\* limit or 10 for a model of no family, and the first entry in the order of
\* the map that shares a token with the model otherwise.
C22_LimitForFirstMatch ==
    (lastCall.op = "rpmStatus" /\ lastCall.model # NoModel) =>
        LET model == lastCall.model
            exact == {e \in EntrySet(rpm_limits) : e.name = model}
            m == lower(model)
            shares(e) ==
                LET parts == split(lower(e.name))
                IN  \/ InList(Lite, parts) /\ Contains(m, Lite)
                    \/ InList(Flash, parts) /\ Contains(m, Flash) /\ ~Contains(m, Lite)
                    \/ InList(Pro, parts) /\ Contains(m, Pro)
            sharing == {i \in 1..Len(rpm_limits) : shares(rpm_limits[i])}
        IN  /\ exact # {} => \E e \in exact : ReportedLimit = e.limit
            /\ (exact = {} /\ sharing # {}) =>
                   ReportedLimit = rpm_limits[Min(sharing)].limit
            /\ (exact = {} /\ sharing = {} /\ rpm_limits # <<>>) =>
                   ReportedLimit = Min({e.limit : e \in EntrySet(rpm_limits)})
            /\ (exact = {} /\ sharing = {} /\ rpm_limits = <<>>) =>
                   ReportedLimit = DEFAULT_RPM_LIMIT

\* the limit of a flash model was asked of a map that lists flash-lite before flash
C22_WitnessFirstMatch ==
    /\ lastCall.op = "rpmStatus"
    /\ lastCall.model = FlashPreview
    /\ Len(rpm_limits) = 3
    /\ rpm_limits[1].name = FlashLiteEntry

---------------------------------------------------------------------------
(* The observability hooks of the streaming dispatcher: add_error_log in    *)
(* the except block and add_request_log in the finally block of every       *)
(* attempt, with a store that executes the insert or raises.                *)

\* What a hook does for its caller: it returns value, or an exception leaves it
HookReturns(value) == [raised |-> FALSE, value |-> value]
HookRaises == [raised |-> TRUE, value |-> FALSE]

\* mutant: the exception of the store leaves add_error_log
add_error_log_Raises(store_ok) == IF store_ok THEN HookReturns(TRUE) ELSE HookRaises

\* add_error_log: True after database.execute, False when it raised
add_error_log(store_ok) == IF store_ok THEN HookReturns(TRUE) ELSE HookReturns(FALSE)

\* mutant: the exception of the store leaves add_request_log
add_request_log_Raises(store_ok) == IF store_ok THEN HookReturns(TRUE) ELSE HookRaises

\* add_request_log: True after database.execute, False when it raised
add_request_log(store_ok) == IF store_ok THEN HookReturns(TRUE) ELSE HookReturns(FALSE)

\* The hooks called in one step of the dispatcher, with what the store did
HookStatus(e, error_store_ok, request_store_ok, error_logged, request_logged) ==
    [error |-> e, error_store_ok |-> error_store_ok,
     request_store_ok |-> request_store_ok,
     add_error_log |-> error_logged, add_request_log |-> request_logged]

NoError == [has_code |-> FALSE, code |-> SUCCESS_STATUS_CODE]

\* the upstream raises e during the attempt: the except block with its hook,
\* the finally block with its hook, and the loop test.  An exception leaving a
\* hook leaves the generator.
StreamFailLogged(r, e, error_store_ok, request_store_ok) ==
    LET retries == req[r].retries + 1
        error_logged == add_error_log(error_store_ok)
        request_logged == add_request_log(request_store_ok)
        R == IF error_logged.raised THEN Returned(Sched, req[r].api_key, "none")
             ELSE handle_api_failure(Sched, req[r].api_key, retries, req[r].model, now)
        raised == error_logged.raised \/ request_logged.raised
        stop == raised \/ R.ret = NoKey \/ retries >= MAX_RETRIES
    IN  /\ req[r].pc = "attempt"
        /\ WithinBounds(R)
        /\ Store(R)
        /\ lastCall' = Call(IF error_logged.raised THEN "raised" ELSE "onFailure",
                            req[r].api_key, retries, req[r].model, R,
                            HookStatus(e, error_store_ok, request_store_ok,
                                       error_logged, request_logged))
        /\ req' = [req EXCEPT ![r] =
               [@ EXCEPT !.retries = retries,
                         !.is_success = FALSE,
                         !.status_code = StatusCodeOf(e),
                         !.api_key = R.ret,
                         !.yielded = IF stop THEN @ ELSE 0,
                         !.keys = IF stop THEN @ ELSE Append(@, R.ret),
                         !.pc = IF stop THEN "done" ELSE "attempt",
                         !.outcome = IF raised THEN "raised"
                                     ELSE IF stop THEN "completed" ELSE @]]
        /\ UNCHANGED <<vertex_vars, singleton_vars, now, hist>>

\* the upstream ends the answer after its last chunk: the break and the finally
\* block with its hook
StreamCompleteLogged(r, request_store_ok) ==
    LET request_logged == add_request_log(request_store_ok)
    IN  /\ req[r].pc = "attempt"
        /\ req[r].yielded = MaxChunks
        /\ req' = [req EXCEPT ![r].is_success = TRUE,
                              ![r].status_code = SUCCESS_STATUS_CODE,
                              ![r].pc = "done",
                              ![r].outcome = IF request_logged.raised THEN "raised"
                                             ELSE "completed"]
        /\ lastCall' = Call("complete", req[r].api_key, req[r].retries, req[r].model,
                            Returned(Sched, req[r].api_key, "none"),
                            HookStatus(NoError, TRUE, request_store_ok,
                                       HookReturns(TRUE), request_logged))
        /\ UNCHANGED <<sched_vars, vertex_vars, singleton_vars, now, hist>>

\* One streaming request, from its dispatch to its end
NextObserve ==
    \/ Tick
    \/ \E m \in Models : Dispatch("r1", m)
    \/ StreamChunk("r1")
    \/ \E request_store_ok \in BOOLEAN : StreamCompleteLogged("r1", request_store_ok)
    \/ \E e \in Errors, error_store_ok \in BOOLEAN, request_store_ok \in BOOLEAN :
           StreamFailLogged("r1", e, error_store_ok, request_store_ok)

SpecObserve == Init /\ [][NextObserve]_vars

\* A step in which an attempt of r1 fails, with the inputs lastCall records
FailLoggedStep ==
    /\ lastCall'.op \in {"onFailure", "raised"}
    /\ req["r1"].pc = "attempt"
    /\ StreamFailLogged("r1", lastCall'.status.error, lastCall'.status.error_store_ok,
                        lastCall'.status.request_store_ok)

\* A step in which an attempt of r1 ends well, with the input lastCall records
CompleteLoggedStep ==
    /\ lastCall'.op = "complete"
    /\ req["r1"].pc = "attempt"
    /\ StreamCompleteLogged("r1", lastCall'.status.request_store_ok)

\* C23: a failure of the observability store in add_error_log or in
\* add_request_log does not reach the dispatcher: the hook returns False
\* instead of raising, and the attempt counter, the key rotation and the reply
\* are what they are with a working store.
C23_HookFailureContained ==
    [][/\ FailLoggedStep =>
              LET retries == req["r1"].retries + 1
                  R == handle_api_failure(Sched, req["r1"].api_key, retries,
                                          req["r1"].model, now)
                  stop == R.ret = NoKey \/ retries >= MAX_RETRIES
              IN  /\ lastCall'.op = "onFailure"
                  /\ lastCall'.status.add_error_log
                         = HookReturns(lastCall'.status.error_store_ok)
                  /\ lastCall'.status.add_request_log
                         = HookReturns(lastCall'.status.request_store_ok)
                  /\ req'["r1"].retries = retries
                  /\ req'["r1"].api_key = R.ret
                  /\ req'["r1"].pc = IF stop THEN "done" ELSE "attempt"
                  /\ req'["r1"].outcome # "raised"
                  /\ req'["r1"].delivered = req["r1"].delivered
                  /\ current_key_index' = R.index
                  /\ current_key' = R.current_key
                  /\ key_failure_counts' = R.fails
                  /\ key_request_times' = R.times
       /\ CompleteLoggedStep =>
              /\ lastCall'.status.add_request_log
                     = HookReturns(lastCall'.status.request_store_ok)
              /\ req'["r1"].outcome = "completed"
              /\ req'["r1"].is_success
              /\ req'["r1"].delivered = req["r1"].delivered
              /\ UNCHANGED sched_vars]_vars

\* both hooks of a failed first attempt found the store failing, and the request
\* goes on with the key handle_api_failure returned
C23_Witness ==
    /\ lastCall.op = "onFailure"
    /\ ~lastCall.status.error_store_ok
    /\ ~lastCall.status.request_store_ok
    /\ req["r1"].pc = "attempt"
    /\ req["r1"].retries = 1
    /\ req["r1"].api_key = lastCall.ret
    /\ lastCall.ret # lastCall.key

---------------------------------------------------------------------------
(* Requests recorded by a selection *)

\* The windows of the pool in the next state, but for the window of (key, model),
\* hold what they held or what cleaning leaves of it
OtherWindowsNotAppended(key, model) ==
    \A k \in KeySet :
        \A m \in DOMAIN key_request_times'[k] \cup DOMAIN key_request_times[k] :
            (k # key \/ m # model) =>
                WindowAfter(k, m) \in {Entry(key_request_times[k], m), WindowBefore(k, m)}

\* One request of now was appended to the window of (key, model), none elsewhere
RecordedOnce(key, model) ==
    /\ WindowAfter(key, model) = Append(WindowBefore(key, model), now)
    /\ OtherWindowsNotAppended(key, model)

\* C24: every choose(M) that returns a key appends exactly one timestamp to the
\* window of (returned key, M) and none to any other window, on the cache, scan,
\* least-loaded and forced paths alike; so onFailure(key, attempt, M) with
\* attempt < MAX_RETRIES records exactly one request on the key it returns.
C24_RecordedExactlyOnce ==
    [][/\ (ChooseStep /\ lastCall'.ret # NoKey) =>
              /\ lastCall'.path \in {"cache", "scan", "least", "forced"}
              /\ RecordedOnce(lastCall'.ret, lastCall'.model)
       /\ (FailureStep /\ lastCall'.retries < MAX_RETRIES /\ lastCall'.model # NoModel
              /\ lastCall'.ret # NoKey) =>
              /\ lastCall'.path \in {"scan", "least", "forced"}
              /\ RecordedOnce(lastCall'.ret, lastCall'.model)]_vars

\* a failure with attempt < MAX_RETRIES disabled the last healthy key, and the
\* forced path recorded one more request on the key it returned, already over
\* its limit
C24_Witness ==
    /\ lastCall.op = "onFailure"
    /\ lastCall.retries < MAX_RETRIES
    /\ lastCall.path = "forced"
    /\ Len(api_keys) = 2
    /\ Len(Entry(key_request_times[lastCall.ret], lastCall.model)) > Limit(lastCall.model)

---------------------------------------------------------------------------
(* Termination of the calls on the auxiliary pool.  A coroutine that waits  *)
(* for vertex_key_index_lock goes on as soon as the lock is free: the event *)
(* loop wakes the waiters of a released asyncio.Lock in turn.               *)

\* get_next_vertex_key: the key at the cursor, and the cursor advanced
get_next_vertex_key(V) == get_next_key(V)

\* get_next_working_vertex_key_with_rpm(model) alone: the call returns on the
\* cache path, or is left waiting at line 136 with the lock of line 331 held
VertexChoose(model) ==
    LET R == get_next_working_vertex_key_with_rpm(VertexSched, vertex_key_index_lock,
                                                 model, now)
    IN  /\ vertex_key_request_times' = R.V.times
        /\ vertex_key_index_lock' = R.locked
        /\ lastVertexCall' = [op |-> "choose", ret |-> R.ret, path |-> R.path]
        /\ UNCHANGED <<sched_vars, vertex_api_keys, current_vertex_key_index,
                       current_vertex_key, vertex_key_failure_counts, singleton_vars,
                       now, lastCall, hist, req>>

\* get_next_vertex_key takes the free lock, advances the cursor and returns:
\* a call of its own, or the one a waiting coroutine has been awaiting
GetNextVertexKey ==
    LET R == get_next_vertex_key(VertexSched)
    IN  /\ ~vertex_key_index_lock
        /\ current_vertex_key_index' = R.index
        /\ lastVertexCall' = [op |-> "next", ret |-> R.ret, path |-> R.path]
        /\ UNCHANGED <<sched_vars, vertex_api_keys, current_vertex_key,
                       vertex_key_failure_counts, vertex_key_request_times,
                       vertex_key_index_lock, singleton_vars, now, lastCall, hist, req>>

\* handle_vertex_api_failure(api_key, retries)
HandleVertexApiFailure(api_key) ==
    /\ vertex_key_failure_counts[api_key] < MaxFailCount
    /\ vertex_key_failure_counts' =
           handle_vertex_api_failure(vertex_key_failure_counts, api_key)
    /\ lastVertexCall' = IF lastVertexCall.path = "blocked" THEN lastVertexCall
                         ELSE [op |-> "onFailure", ret |-> NoKey, path |-> "none"]
    /\ UNCHANGED <<sched_vars, vertex_api_keys, current_vertex_key_index,
                   current_vertex_key, vertex_key_request_times, vertex_key_index_lock,
                   singleton_vars, now, lastCall, hist, req>>

NextVertexFair ==
    \/ Tick
    \/ \E m \in Models : Choose(m)
    \/ \E m \in Models : VertexChoose(m)
    \/ GetNextVertexKey
    \/ \E k \in KeySet : HandleVertexApiFailure(k)

SpecVertexFair ==
    /\ InitVertex
    /\ [][NextVertexFair]_vars
    /\ WF_vars(GetNextVertexKey)

\* C25: every choose on the auxiliary pool eventually returns: a call that
\* waits for vertex_key_index_lock gets it in the end, no coroutine waiting
\* for a lock it holds itself.
C25_ChooseTerminates ==
    (lastVertexCall.path = "blocked") ~> (lastVertexCall.path # "blocked")

---------------------------------------------------------------------------
(* The failures a request leaves on the keys of its attempts *)

\* The number of attempts of the list keys that were made with key
Occurrences(keys, key) == Cardinality({i \in 1..Len(keys) : keys[i] = key})

\* A step in which the attempt of r1 that brings retries to MAX_RETRIES fails,
\* r1 being the only request dispatched since construction
ExhaustStep ==
    /\ req["r2"].pc = "idle"
    /\ req["r1"].pc = "attempt"
    /\ req["r1"].retries + 1 = MAX_RETRIES
    /\ \E e \in Errors : StreamFail("r1", e)

\* C26 as stated: on the failed attempt that brings the attempt counter to
\* MAX_RETRIES the dispatcher stops without calling onFailure, so a request whose
\* MAX_RETRIES attempts all fail has incremented the failure counter of the keys
\* of its first MAX_RETRIES - 1 attempts only.
C26_NoFailureAtCap ==
    [][ExhaustStep =>
          /\ req'["r1"].pc = "done"
          /\ key_failure_counts' = key_failure_counts
          /\ \A k \in KeySet :
                 key_failure_counts'[k] =
                     Occurrences(SubSeq(req'["r1"].keys, 1, MAX_RETRIES - 1), k)]_vars

\* C26 amended: on that attempt the dispatcher calls onFailure all the same,
\* which increments the failure counter of the key of the attempt and returns no
\* key, and then stops; a request whose MAX_RETRIES attempts all fail has
\* incremented the failure counter of the key of each of its MAX_RETRIES
\* attempts.
C26_FailureCountedAtCap ==
    [][ExhaustStep =>
          /\ req'["r1"].pc = "done"
          /\ lastCall'.op = "onFailure"
          /\ lastCall'.key = req["r1"].api_key
          /\ lastCall'.retries = MAX_RETRIES
          /\ lastCall'.ret = NoKey
          /\ key_failure_counts' =
                 [key_failure_counts EXCEPT ![req["r1"].api_key] = @ + 1]
          /\ UNCHANGED <<current_key_index, current_key, key_request_times>>
          /\ Len(req'["r1"].keys) = MAX_RETRIES
          /\ \A k \in KeySet :
                 key_failure_counts'[k] = Occurrences(req'["r1"].keys, k)]_vars

\* the three attempts of r1 failed on a, b and a again: a is disabled by its two
\* failures, the second of them on the last attempt
C26_Witness ==
    /\ req["r1"].pc = "done"
    /\ req["r1"].retries = MAX_RETRIES
    /\ req["r2"].pc = "idle"
    /\ req["r1"].keys = <<"a", "b", "a">>
    /\ key_failure_counts["a"] = 2
    /\ key_failure_counts["b"] = 1
    /\ lastCall.op = "onFailure"

---------------------------------------------------------------------------
(* Termination of the retry loop.  The upstream call of an attempt does not *)
(* hang: it sends its next chunk, ends the answer or raises.                *)

\* What the upstream does next for the attempt of r
UpstreamStep(r) ==
    \/ StreamChunk(r)
    \/ StreamComplete(r)
    \/ \E e \in Errors : StreamFail(r, e)

\* One request, and calls of the scheduler made for others meanwhile
NextRetry ==
    \/ \E m \in Models : Dispatch("r1", m)
    \/ UpstreamStep("r1")
    \/ \E m \in Models : Choose(m)

SpecDispatchFair ==
    /\ InitDispatch
    /\ [][NextRetry]_vars
    /\ WF_vars(UpstreamStep("r1"))

\* C27: a dispatched streaming request makes at most MAX_RETRIES upstream calls,
\* each retry with the key onFailure returned, and its loop ends whatever the
\* upstream does: with an attempt that succeeded, with no key from onFailure,
\* or with the attempt counter at MAX_RETRIES.
C27_RetryLoopTerminates ==
    /\ [](\A r \in Reqs :
              /\ Len(req[r].keys) <= MAX_RETRIES
              /\ req[r].retries <= MAX_RETRIES
              /\ req[r].pc = "attempt" =>
                     /\ req[r].retries < MAX_RETRIES
                     /\ Len(req[r].keys) = req[r].retries + 1
                     /\ req[r].api_key = req[r].keys[Len(req[r].keys)]
              /\ req[r].pc = "done" =>
                     \/ req[r].is_success
                     \/ req[r].api_key = NoKey
                     \/ req[r].retries >= MAX_RETRIES)
    /\ \A r \in Reqs : (req[r].pc = "attempt") ~> (req[r].pc = "done")

\* r1 ended after MAX_RETRIES attempts on three keys, the last of which failed
\* after its chunk had been yielded
C27_Witness ==
    /\ req["r1"].pc = "done"
    /\ ~req["r1"].is_success
    /\ req["r1"].retries = MAX_RETRIES
    /\ req["r1"].keys = <<"a", "b", "c">>
    /\ req["r1"].yielded = MaxChunks

---------------------------------------------------------------------------
(* The least-loaded fallback and the forced path *)

\* The keys the selection of the step can use: those it finds not disabled
ValidKeys == {k \in KeySet : key_failure_counts'[k] < MAX_FAILURES}

\* No key is both not disabled and under the limit of model
NoneEligible(model) ==
    \A k \in ValidKeys : CountBefore(k, model) >= Limit(model)

\* The positions of the keys that are not disabled and whose ratio
\* count / limit no other such key undercuts
LeastLoaded(model) ==
    {i \in 1..Len(api_keys) :
        /\ api_keys[i] \in ValidKeys
        /\ \A k \in ValidKeys :
               CountBefore(api_keys[i], model) * Limit(model)
                   <= CountBefore(k, model) * Limit(model)}

\* The pool [a,b] with two healthy keys and a limit of 2
TwoKeysLimitTwo(model) ==
    /\ api_keys = <<"a", "b">>
    /\ ValidKeys = KeySet
    /\ Limit(model) = 2

\* C28 as stated: when the scan finds no key both non-disabled and under its
\* limit, choose(M) returns the non-disabled key of lowest count / limit, the
\* earliest in pool order on a tie, moves the cursor one past it, caches it and
\* records the request; pool [a,b], limit 2, windows a:2 and b:1 is such a case
\* and gives b with b:2.
C28_LeastLoadedExampleOfFallback ==
    [][ChooseStep =>
          LET model == lastCall'.model
          IN  /\ (NoneEligible(model) /\ ValidKeys # {}) =>
                     /\ lastCall'.path = "least"
                     /\ lastCall'.ret = api_keys[Min(LeastLoaded(model))]
              /\ (/\ TwoKeysLimitTwo(model)
                  /\ CountBefore("a", model) = 2
                  /\ CountBefore("b", model) = 1) =>
                     /\ lastCall'.path = "least"
                     /\ lastCall'.ret = "b"
                     /\ Len(WindowAfter("b", model)) = 2]_vars

\* C28 amended: the rule as stated, for a selection made by choose(M) or by
\* onFailure; pool [a,b], limit 2, windows a:3 and b:2 gives b with b:3 by the
\* fallback, while windows a:2 and b:1 give b with b:2 by the scan, b being
\* under its limit.
C28_LeastLoaded ==
    [][SelectStep =>
          LET model == current_model'
              best == api_keys[Min(LeastLoaded(model))]
          IN  /\ (NoneEligible(model) /\ ValidKeys # {}) =>
                     /\ lastCall'.path = "least"
                     /\ lastCall'.ret = best
                     /\ current_key_index' = Min(LeastLoaded(model)) % Len(api_keys)
                     /\ current_key' = best
                     /\ RecordedOnce(best, model)
              /\ (/\ TwoKeysLimitTwo(model)
                  /\ CountBefore("a", model) = 3
                  /\ CountBefore("b", model) = 2) =>
                     /\ lastCall'.path = "least"
                     /\ lastCall'.ret = "b"
                     /\ Len(WindowAfter("b", model)) = 3
              /\ (/\ TwoKeysLimitTwo(model)
                  /\ CountBefore("a", model) = 2
                  /\ CountBefore("b", model) = 1) =>
                     /\ lastCall'.path \in {"cache", "scan"}
                     /\ lastCall'.ret = "b"
                     /\ Len(WindowAfter("b", model)) = 2]_vars

\* with a:3 and b:2 in the window the fallback returned b, now at 3
C28_Witness ==
    /\ lastCall.op = "choose"
    /\ lastCall.path = "least"
    /\ lastCall.ret = "b"
    /\ api_keys = <<"a", "b">>
    /\ \A k \in KeySet : key_failure_counts[k] < MAX_FAILURES
    /\ Len(Entry(key_request_times["a"], FlashModel)) = 3
    /\ Len(Entry(key_request_times["b"], FlashModel)) = 3
    /\ \A i \in 1..3 : /\ Entry(key_request_times["a"], FlashModel)[i] >= now - rpm_window_seconds
                        /\ Entry(key_request_times["b"], FlashModel)[i] >= now - rpm_window_seconds

\* the fallback chose between two keys of the same usage and returned the first
C28_WitnessTie ==
    /\ lastCall.op = "choose"
    /\ lastCall.path = "least"
    /\ lastCall.ret = "a"
    /\ api_keys = <<"a", "b">>
    /\ \A k \in KeySet : key_failure_counts[k] < MAX_FAILURES
    /\ Entry(key_request_times["a"], FlashModel) = <<now, now, now>>
    /\ Entry(key_request_times["b"], FlashModel) = <<now, now>>

\* C29: the forced path of choose(M) is taken exactly when every key of the
\* non-empty pool is disabled: the call then returns the key at the cursor,
\* advances the cursor by one modulo the pool size, caches that key and records
\* the request; it is never taken while some key is not disabled.
C29_ForcedPath ==
    [][SelectStep =>
          LET model == current_model'
              key == api_keys[current_key_index + 1]
          IN  /\ (lastCall'.path = "forced") <=> (ValidKeys = {})
              /\ ValidKeys = {} =>
                     /\ lastCall'.ret = key
                     /\ current_key_index' = (current_key_index + 1) % Len(api_keys)
                     /\ current_key' = key
                     /\ RecordedOnce(key, model)]_vars

\* every key of a pool of two is disabled and choose returned the second one,
\* on which the cursor stood
C29_Witness ==
    /\ lastCall.op = "choose"
    /\ lastCall.path = "forced"
    /\ api_keys = <<"a", "b">>
    /\ \A k \in KeySet : key_failure_counts[k] >= MAX_FAILURES
    /\ lastCall.ret = "b"
    /\ current_key_index = 0
    /\ current_key = "b"

---------------------------------------------------------------------------
(* The RPM windows between and after accesses *)

\* Every window of the pool is in non-decreasing order and holds no timestamp
\* of the future
WindowsOrdered ==
    \A k \in KeySet : \A m \in DOMAIN key_request_times[k] :
        LET window == key_request_times[k][m]
        IN  /\ \A i \in 1..Len(window) : window[i] <= now
            /\ \A i \in 1..(Len(window) - 1) : window[i] <= window[i + 1]

\* C30 as stated: in every reachable state, at every clock value, every RPM
\* window holds only timestamps strictly newer than now - W, in non-decreasing
\* order.
C30_WindowsFresh ==
    /\ WindowsOrdered
    /\ \A k \in KeySet : \A m \in DOMAIN key_request_times[k] :
           \A i \in 1..Len(key_request_times[k][m]) :
               key_request_times[k][m][i] > now - rpm_window_seconds

\* C30 amended: every RPM window is in non-decreasing order in every state, and
\* the window of the key a selection returns holds, after the call, its
\* timestamps not older than now - W followed by now; a window that is not
\* accessed keeps its older timestamps while time passes.
C30_WindowsCleanedOnAccess ==
    [][/\ WindowsOrdered'
       /\ (SelectStep /\ lastCall'.ret # NoKey) =>
              LET model == current_model'
                  key == lastCall'.ret
              IN  /\ WindowAfter(key, model)
                         = Append(Recent(Entry(key_request_times[key], model), now), now)
                  /\ \A i \in 1..Len(WindowAfter(key, model)) :
                         WindowAfter(key, model)[i] >= now - rpm_window_seconds
       /\ (now' # now) => key_request_times' = key_request_times]_vars

\* a request of t=0 is still in the window of a at t=2, and the window of b was
\* cleaned by the call that has just returned b and kept a request of now - W
C30_Witness ==
    /\ now = 2
    /\ api_keys = <<"a", "b">>
    /\ lastCall.op = "choose"
    /\ lastCall.ret = "b"
    /\ Entry(key_request_times["a"], FlashModel) # <<>>
    /\ Entry(key_request_times["a"], FlashModel)[1] = 0
    /\ Entry(key_request_times["b"], FlashModel)[1] = now - rpm_window_seconds

---------------------------------------------------------------------------
(* Coroutines.  Every call of KeyManager is a task of the asyncio event    *)
(* loop.  The code between two awaits runs without interruption, and the   *)
(* only awaits of these methods that can suspend are the acquisitions of   *)
(* a lock: a task is modelled from one acquisition to the next in one      *)
(* step.  req holds the tasks, hist the task that has the event loop.      *)

Tasks == Reqs

NoTask == <<>>

Running == hist

key_index_lock == "key_index_lock"
failure_count_lock == "failure_count_lock"
rpm_lock == "rpm_lock"
vertex_rpm_lock == "vertex_rpm_lock"

vertex_failure_count_lock == "vertex_failure_count_lock"

\* the name of the lock whose state is the variable vertex_key_index_lock
VertexKeyIndexLock == "vertex_key_index_lock"

PrimaryLocks == {key_index_lock, failure_count_lock, rpm_lock}
VertexLocks == {VertexKeyIndexLock, vertex_failure_count_lock, vertex_rpm_lock}

NoSnap == [none |-> TRUE]

\* A task: the call it runs (op and arguments), the acquisition it stands before
\* (pc), the locks it holds across awaits, and the locals of the method
IdleTask ==
    [pc |-> "idle", op |-> "none", key |-> NoKey, retries |-> 0, model |-> NoModel,
     use |-> NoModel, held |-> {}, snap |-> NoSnap, start |-> 0, i |-> 0,
     cand |-> NoKey, initial |-> NoKey, best |-> NoKey, lowest |-> Infinity,
     path |-> "none", status |-> EmptyDict]

\* The lock whose acquisition opens the step at pc
NextLock(pc) ==
    CASE pc \in {"enter", "legacyFirst", "legacyNext"} -> key_index_lock
      [] pc \in {"cacheValid", "scanValid", "leastValid", "failCount", "legacyValid",
                 "resetKey", "resetAll", "classify"} -> failure_count_lock
      [] pc \in {"recordCache", "recordNew", "statusPrimary"} -> rpm_lock
      [] pc \in {"statusVertex", "vertexRecordCache"} -> vertex_rpm_lock
      [] pc \in {"vertexEnter", "vertexNext"} -> VertexKeyIndexLock
      [] pc \in {"vertexCacheValid", "vertexFailCount"} -> vertex_failure_count_lock
      [] OTHER -> "none"

\* The task goes on to its next acquisition; S is the primary pool it leaves, V
\* the auxiliary pool
Going(T, S) ==
    [T |-> T, S |-> S, V |-> VertexSched, done |-> FALSE, ret |-> NoKey,
     path |-> "none", status |-> EmptyStatus]

\* The call returns
Finished(T, S, ret, path, status) ==
    [T |-> T, S |-> S, V |-> VertexSched, done |-> TRUE, ret |-> ret, path |-> path,
     status |-> status]

\* get_next_working_key_with_rpm from `if not self.api_keys` to the first
\* is_key_valid of the while loop
BeginScan(T, S, t) ==
    IF Len(S.api_keys) = 0
    THEN Finished([T EXCEPT !.held = @ \ {key_index_lock}], S, NoKey, "empty", EmptyStatus)
    ELSE LET start_index == S.index
             check_index == (start_index + 0) % Len(S.api_keys)
             key == S.api_keys[check_index + 1]
         IN  Going([T EXCEPT !.pc = "scanValid", !.start = start_index, !.i = 0,
                             !.cand = key],
                   [S EXCEPT !.times = Cleaned(S.times, key, T.use, t)])

\* get_next_working_key_with_rpm from `async with self.key_index_lock` to the
\* first is_key_valid
EnterSegment(T, S0, t) ==
    LET S == [S0 EXCEPT !.current_model = T.use]
        T1 == [T EXCEPT !.held = @ \cup {key_index_lock},
                        !.snap = IF T.op = "choose" THEN S0 ELSE @]
    IN  IF S.prefer /\ S.current_key # NoKey
        THEN Going([T1 EXCEPT !.pc = "cacheValid"],
                   [S EXCEPT !.times = Cleaned(S.times, S.current_key, T.use, t)])
        ELSE BeginScan(T1, S, t)

\* is_key_valid and is_key_within_rpm_limit of the cached key
CacheValidSegment(T, S, t) ==
    LET is_valid == is_key_valid(S.fails, S.current_key)
        times1 == Cleaned(S.times, S.current_key, T.use, t)
        is_within_limit ==
            is_key_within_rpm_limit(times1, S.limits, S.current_key, T.use, t)
        S1 == [S EXCEPT !.times = times1]
    IN  IF is_valid /\ is_within_limit
        THEN Going([T EXCEPT !.pc = "recordCache"], S1)
        ELSE BeginScan(T, S1, t)

\* _record_request of the cached key, and the return
RecordCacheSegment(T, S, t) ==
    Finished([T EXCEPT !.held = @ \ {key_index_lock}],
             [S EXCEPT !.times = _record_request(S.times, S.current_key, T.use, t)],
             S.current_key, "cache", EmptyStatus)

\* mutant: the cursor stays on the key the scan selects
ScanValidSegment_NoAdvance(T, S, t) ==
    LET n == Len(S.api_keys)
        check_index == (T.start + T.i) % n
        key == T.cand
        times1 == Cleaned(S.times, key, T.use, t)
        S1 == [S EXCEPT !.times = times1]
    IN  IF /\ is_key_valid(S.fails, key)
           /\ is_key_within_rpm_limit(times1, S.limits, key, T.use, t)
        THEN Going([T EXCEPT !.pc = "recordNew", !.path = "scan"],
                   [S1 EXCEPT !.index = check_index % n, !.current_key = key])
        ELSE IF T.i + 1 < n
        THEN LET next == S.api_keys[((T.start + T.i + 1) % n) + 1]
             IN  Going([T EXCEPT !.i = @ + 1, !.cand = next],
                       [S1 EXCEPT !.times = Cleaned(times1, next, T.use, t)])
        ELSE Going([T EXCEPT !.pc = "leastValid", !.i = 1, !.cand = NoKey], S1)

\* One turn of the while loop, from is_key_valid on
ScanValidSegment(T, S, t) ==
    LET n == Len(S.api_keys)
        check_index == (T.start + T.i) % n
        key == T.cand
        times1 == Cleaned(S.times, key, T.use, t)
        S1 == [S EXCEPT !.times = times1]
    IN  IF /\ is_key_valid(S.fails, key)
           /\ is_key_within_rpm_limit(times1, S.limits, key, T.use, t)
        THEN Going([T EXCEPT !.pc = "recordNew", !.path = "scan"],
                   [S1 EXCEPT !.index = (check_index + 1) % n, !.current_key = key])
        ELSE IF T.i + 1 < n
        THEN LET next == S.api_keys[((T.start + T.i + 1) % n) + 1]
             IN  Going([T EXCEPT !.i = @ + 1, !.cand = next],
                       [S1 EXCEPT !.times = Cleaned(times1, next, T.use, t)])
        ELSE Going([T EXCEPT !.pc = "leastValid", !.i = 1, !.cand = NoKey], S1)

\* One turn of the for loop of _get_least_used_key; after the last turn, the
\* code up to _record_request
LeastValidSegment(T, S, t) ==
    LET n == Len(S.api_keys)
        key == S.api_keys[T.i]
        valid == is_key_valid(S.fails, key)
        times1 == IF valid THEN Cleaned(S.times, key, T.use, t) ELSE S.times
        usage_ratio == UsageRatio(_get_rpm_count(times1, key, T.use, t),
                                  _get_rpm_limit_for_model(S.limits, T.use))
        better == valid /\ RatioLess(usage_ratio, T.lowest)
        best_key == IF better THEN key ELSE T.best
        lowest_usage == IF better THEN usage_ratio ELSE T.lowest
        S1 == [S EXCEPT !.times = times1]
        T1 == [T EXCEPT !.best = NoKey, !.lowest = Infinity, !.i = 0]
    IN  IF T.i < n
        THEN Going([T EXCEPT !.i = @ + 1, !.best = best_key, !.lowest = lowest_usage], S1)
        ELSE IF best_key # NoKey
        THEN Going([T1 EXCEPT !.pc = "recordNew", !.cand = best_key, !.path = "least"],
                   [S1 EXCEPT !.index = (IndexOf(S.api_keys, best_key) + 1) % n,
                              !.current_key = best_key])
        ELSE LET current == S1.api_keys[S1.index + 1]
             IN  Going([T1 EXCEPT !.pc = "recordNew", !.cand = current, !.path = "forced"],
                       [S1 EXCEPT !.index = (S1.index + 1) % n, !.current_key = current])

\* _record_request of the key just selected, and the return
RecordNewSegment(T, S, t) ==
    Finished([T EXCEPT !.held = @ \ {key_index_lock}],
             [S EXCEPT !.times = _record_request(S.times, T.cand, T.use, t)],
             T.cand, T.path, EmptyStatus)

\* handle_api_failure up to the call that selects the next key
FailCountSegment(T, S0, t) ==
    LET S == [S0 EXCEPT !.fails[T.key] = @ + 1]
        T1 == [T EXCEPT !.snap = S0]
        model_to_use == IF T.model # NoModel THEN T.model ELSE S.current_model
    IN  IF T.retries < MAX_RETRIES
        THEN IF model_to_use # NoModel
             THEN Going([T1 EXCEPT !.pc = "enter", !.use = model_to_use],
                        [S EXCEPT !.current_key = NoKey])
             ELSE Going([T1 EXCEPT !.pc = "legacyFirst"], S)
        ELSE Finished(T1, S, NoKey, "none", EmptyStatus)

\* get_next_working_key: the first get_next_key
LegacyFirstSegment(T, S, t) ==
    LET R == get_next_key(S)
    IN  Going([T EXCEPT !.pc = "legacyValid", !.cand = R.ret, !.initial = R.ret],
              [S EXCEPT !.index = R.index])

\* get_next_working_key: is_key_valid of the key in hand
LegacyValidSegment(T, S, t) ==
    IF is_key_valid(S.fails, T.cand)
    THEN Finished(T, S, T.cand, "legacy", EmptyStatus)
    ELSE Going([T EXCEPT !.pc = "legacyNext"], S)

\* get_next_working_key: the get_next_key of the loop
LegacyNextSegment(T, S, t) ==
    LET R == get_next_key(S)
        S1 == [S EXCEPT !.index = R.index]
    IN  IF R.ret = T.initial
        THEN Finished(T, S1, R.ret, "legacy", EmptyStatus)
        ELSE Going([T EXCEPT !.pc = "legacyValid", !.cand = R.ret], S1)

ResetKeySegment(T, S, t) ==
    LET R == reset_key_failure_count(S, T.key)
    IN  Finished(T, [S EXCEPT !.fails = R.fails], NoKey, R.path, EmptyStatus)

ResetAllSegment(T, S, t) ==
    LET R == reset_failure_counts(S)
    IN  Finished(T, [S EXCEPT !.fails = R.fails], NoKey, R.path, EmptyStatus)

ClassifySegment(T, S, t) ==
    Finished(T, S, NoKey, "none", get_keys_by_status(S))

\* mutant: get_rpm_status keeps rpm_lock while it reads the auxiliary pool
StatusPrimarySegment_Nested(T, S, t) ==
    Going([T EXCEPT !.pc = "statusVertex", !.held = @ \cup {rpm_lock},
                    !.status = KeyStatus(S.api_keys, S.times, S.fails, S.current_key,
                                         S.limits, t)],
          [S EXCEPT !.times = CleanedAll(S.times, t)])

\* get_rpm_status: the block under rpm_lock
StatusPrimarySegment(T, S, t) ==
    Going([T EXCEPT !.pc = "statusVertex",
                    !.status = KeyStatus(S.api_keys, S.times, S.fails, S.current_key,
                                         S.limits, t)],
          [S EXCEPT !.times = CleanedAll(S.times, t)])

\* get_rpm_status: the block under vertex_rpm_lock, and the dict returned
StatusVertexSegment(T, S, t) ==
    [Finished(T, S, NoKey, "none",
              [get_rpm_status(S, T.model, t) EXCEPT !.api_keys = T.status])
     EXCEPT !.V.times = CleanedAll(@, t)]

\* get_next_working_vertex_key_with_rpm from `async with
\* self.vertex_key_index_lock` to the next acquisition
VertexEnterSegment(T, S, t) ==
    LET T1 == [T EXCEPT !.held = @ \cup {VertexKeyIndexLock}]
    IN  IF VertexSched.prefer /\ VertexSched.current_key # NoKey
        THEN Going([T1 EXCEPT !.pc = "vertexCacheValid"], S)
        ELSE Going([T1 EXCEPT !.pc = "vertexNext"], S)

\* is_vertex_key_valid of the cached key and, when it is valid,
\* is_key_within_rpm_limit
VertexCacheValidSegment(T, S, t) ==
    LET V == VertexSched
        is_valid == is_key_valid(V.fails, V.current_key)
        times1 == IF is_valid THEN Cleaned(V.times, V.current_key, T.use, t) ELSE V.times
    IN  IF is_valid /\ is_key_within_rpm_limit(times1, V.limits, V.current_key, T.use, t)
        THEN [Going([T EXCEPT !.pc = "vertexRecordCache"], S) EXCEPT !.V.times = times1]
        ELSE [Going([T EXCEPT !.pc = "vertexNext"], S) EXCEPT !.V.times = times1]

\* _record_request of the cached auxiliary key, and the return
VertexRecordCacheSegment(T, S, t) ==
    [Finished([T EXCEPT !.held = @ \ {VertexKeyIndexLock}], S,
              VertexSched.current_key, "cache", EmptyStatus)
     EXCEPT !.V.times = _record_request(@, VertexSched.current_key, T.use, t)]

\* get_next_vertex_key, awaited inside vertex_key_index_lock.  The acquisition
\* that opens it finds the lock held by the task itself, and an asyncio.Lock is
\* not reentrant: the step is never taken.
VertexNextSegment(T, S, t) ==
    LET R == get_next_vertex_key(VertexSched)
    IN  [Going([T EXCEPT !.cand = R.ret], S) EXCEPT !.V.index = R.index]

\* handle_vertex_api_failure
VertexFailCountSegment(T, S, t) ==
    [Finished(T, S, NoKey, "none", EmptyStatus)
     EXCEPT !.V.fails = handle_vertex_api_failure(@, T.key)]

\* The step of task T at its pc
Segment(T, S, t) ==
    CASE T.pc = "enter" -> EnterSegment(T, S, t)
      [] T.pc = "cacheValid" -> CacheValidSegment(T, S, t)
      [] T.pc = "recordCache" -> RecordCacheSegment(T, S, t)
      [] T.pc = "scanValid" -> ScanValidSegment(T, S, t)
      [] T.pc = "leastValid" -> LeastValidSegment(T, S, t)
      [] T.pc = "recordNew" -> RecordNewSegment(T, S, t)
      [] T.pc = "failCount" -> FailCountSegment(T, S, t)
      [] T.pc = "legacyFirst" -> LegacyFirstSegment(T, S, t)
      [] T.pc = "legacyValid" -> LegacyValidSegment(T, S, t)
      [] T.pc = "legacyNext" -> LegacyNextSegment(T, S, t)
      [] T.pc = "resetKey" -> ResetKeySegment(T, S, t)
      [] T.pc = "resetAll" -> ResetAllSegment(T, S, t)
      [] T.pc = "classify" -> ClassifySegment(T, S, t)
      [] T.pc = "statusPrimary" -> StatusPrimarySegment(T, S, t)
      [] T.pc = "statusVertex" -> StatusVertexSegment(T, S, t)
      [] T.pc = "vertexEnter" -> VertexEnterSegment(T, S, t)
      [] T.pc = "vertexCacheValid" -> VertexCacheValidSegment(T, S, t)
      [] T.pc = "vertexRecordCache" -> VertexRecordCacheSegment(T, S, t)
      [] T.pc = "vertexNext" -> VertexNextSegment(T, S, t)
      [] T.pc = "vertexFailCount" -> VertexFailCountSegment(T, S, t)

\* The first acquisition of each call
FirstPc(op) ==
    CASE op = "choose" -> "enter"
      [] op = "onFailure" -> "failCount"
      [] op = "resetKey" -> "resetKey"
      [] op = "resetAll" -> "resetAll"
      [] op = "classify" -> "classify"
      [] op = "rpmStatus" -> "statusPrimary"
      [] op = "vertexChoose" -> "vertexEnter"
      [] op = "vertexOnFailure" -> "vertexFailCount"

\* mutant: every await gives the event loop to any ready task
AfterAwait_Yields(t) == NoTask

\* The task that has the event loop after task t awaited a coroutine that did
\* not suspend, or acquired a free lock: t itself
AfterAwait(t) == <<t>>

Active == {u \in Tasks : req[u].pc # "idle"}

\* the bounds leave room for the call
RoomFor(op, key) ==
    /\ op \in {"choose", "onFailure"} =>
           \A k \in KeySet, m \in Models :
               Len(Entry(key_request_times[k], m)) + Cardinality(Active)
                   < Limit(m) + MaxOver
    /\ op = "onFailure" =>
           key_failure_counts[key]
             + Cardinality({u \in Active : req[u].op = "onFailure" /\ req[u].key = key})
               < MaxFailCount
    /\ op = "vertexOnFailure" =>
           vertex_key_failure_counts[key]
             + Cardinality({u \in Active : req[u].op = "vertexOnFailure"
                                            /\ req[u].key = key})
               < MaxFailCount

\* The record of a finished call, with the task that made it
\* The record of a finished call.  For a get_next_working_key_with_rpm, pending
\* is the set of tasks started and not finished when it returns, from the cursor
\* it found and to the cursor it leaves.
TaskCall(t, T, X) ==
    [task |-> t,
     pending |-> IF T.op = "choose" THEN Active \ {t} ELSE {},
     from |-> IF T.op = "choose" THEN X.T.snap.index ELSE 0,
     to |-> IF T.op = "choose" THEN X.S.index ELSE 0]
    @@ Call(T.op, T.key, T.retries, T.model, X, X.status)

\* A call is made: its task is created and ready to run
Issue(t, op, key, retries, model) ==
    /\ req[t].pc = "idle"
    /\ Running = NoTask
    /\ t # "r1" => req["r1"].pc # "idle"
    /\ RoomFor(op, key)
    /\ req' = [req EXCEPT ![t] =
           [IdleTask EXCEPT !.pc = FirstPc(op), !.op = op, !.key = key,
                            !.retries = retries, !.model = model, !.use = model]]
    /\ UNCHANGED <<sched_vars, vertex_vars, singleton_vars, now, lastCall, hist>>

\* The event loop runs task t up to its next acquisition.  A task that finds the
\* lock held gives up the event loop and stays where it is.
Step(t) ==
    LET T == req[t]
        X == Segment(T, Sched, now)
    IN  /\ T.pc # "idle"
        /\ Running \in {NoTask, <<t>>}
        /\ IF \E u \in Tasks : NextLock(T.pc) \in req[u].held
           THEN /\ hist' = NoTask
                /\ UNCHANGED <<sched_vars, vertex_vars, singleton_vars, now, lastCall, req>>
           ELSE /\ Store(X.S)
                /\ current_vertex_key_index' = X.V.index
                /\ current_vertex_key' = X.V.current_key
                /\ vertex_key_failure_counts' = X.V.fails
                /\ vertex_key_request_times' = X.V.times
                /\ req' = [req EXCEPT ![t] = IF X.done THEN IdleTask ELSE X.T]
                /\ vertex_key_index_lock' =
                       \E u \in Tasks : VertexKeyIndexLock \in req'[u].held
                /\ hist' = IF X.done THEN NoTask ELSE AfterAwait(t)
                /\ lastCall' = IF X.done THEN TaskCall(t, T, X) ELSE lastCall
                /\ UNCHANGED <<vertex_api_keys, lastVertexCall, singleton_vars, now>>

InitTasks ==
    /\ \E keys \in SmallPools, prefer \in BOOLEAN :
           KeyManagerInit(keys, <<>>, LimitsConfig, RPM_WINDOW_SECONDS, prefer)
    /\ SingletonInit
    /\ now = 0
    /\ lastCall = [task |-> "none", pending |-> {}, from |-> 0, to |-> 0]
                  @@ Call("init", NoKey, 0, NoModel, Returned(Sched, NoKey, "none"),
                          EmptyStatus)
    /\ lastVertexCall = NoVertexCall
    /\ handoff = NoHandoff
    /\ hist = NoTask
    /\ req = [t \in Tasks |-> IdleTask]

NextTasks ==
    \/ \E t \in Tasks, m \in Models : Issue(t, "choose", NoKey, 0, m)
    \/ \E t \in Tasks, k \in KeySet, n \in Attempts, m \in FailureModels :
           Issue(t, "onFailure", k, n, m)
    \/ \E t \in Tasks : Issue(t, "rpmStatus", NoKey, 0, NoModel)
    \/ \E t \in Tasks : Step(t)

SpecTasks == InitTasks /\ [][NextTasks]_vars

\* Every call that takes a lock, of both pools, on pools of one key
LockPools == {<<"a">>}

InitLocks ==
    /\ \E keys \in LockPools, prefer \in BOOLEAN :
           KeyManagerInit(keys, keys, LimitsConfig, RPM_WINDOW_SECONDS, prefer)
    /\ SingletonInit
    /\ now = 0
    /\ lastCall = [task |-> "none", pending |-> {}, from |-> 0, to |-> 0]
                  @@ Call("init", NoKey, 0, NoModel, Returned(Sched, NoKey, "none"),
                          EmptyStatus)
    /\ lastVertexCall = NoVertexCall
    /\ handoff = NoHandoff
    /\ hist = NoTask
    /\ req = [t \in Tasks |-> IdleTask]

NextLocks ==
    \/ NextTasks
    \/ \E t \in Tasks, k \in KeySet : Issue(t, "resetKey", k, 0, NoModel)
    \/ \E t \in Tasks : Issue(t, "resetAll", NoKey, 0, NoModel)
    \/ \E t \in Tasks : Issue(t, "classify", NoKey, 0, NoModel)
    \/ \E t \in Tasks, m \in Models : Issue(t, "vertexChoose", NoKey, 0, m)
    \/ \E t \in Tasks, k \in Keys(vertex_api_keys) : Issue(t, "vertexOnFailure", k, 1, NoModel)

SpecLocks == InitLocks /\ [][NextLocks]_vars

\* C31: a task that stands before the acquisition of a cursor lock holds neither
\* the RPM lock nor the failure-count lock, and no task holds or requests a lock
\* of one pool while it holds a lock of the other: locks are taken cursor lock
\* first, RPM lock or failure-count lock inside it.
C31_LockOrder ==
    \A t \in Tasks :
        LET T == req[t]
            L == NextLock(T.pc)
        IN  T.pc # "idle" =>
              /\ L = key_index_lock => T.held \cap {failure_count_lock, rpm_lock} = {}
              /\ L \in VertexLocks => T.held \cap PrimaryLocks = {}
              /\ L \in PrimaryLocks => T.held \cap VertexLocks = {}
              /\ T.held \cap PrimaryLocks = {} \/ T.held \cap VertexLocks = {}

\* a forced selection stands before rpm_lock inside key_index_lock, while a call
\* of the auxiliary pool holds vertex_key_index_lock and waits for it
C31_Witness ==
    \E t, u \in Tasks :
        /\ req[t].pc = "recordNew" /\ req[t].path = "forced"
        /\ key_index_lock \in req[t].held
        /\ req[u].pc = "vertexNext" /\ VertexKeyIndexLock \in req[u].held
        /\ vertex_key_index_lock

\* the fields of the scheduler in a result R
StateOf(R) ==
    [api_keys |-> R.api_keys, index |-> R.index, current_key |-> R.current_key,
     current_model |-> R.current_model, fails |-> R.fails, times |-> R.times,
     limits |-> R.limits, prefer |-> R.prefer]

\* task t returns from its call in this step
Returns(t) == req[t].pc # "idle" /\ req'[t].pc = "idle"

\* C32: whatever other calls are pending or under way, a choose leaves the pool
\* and returns the key as if it had run alone, in one step, on the state it found
\* when it took the cursor lock: the concurrent calls act in a serial order.
C32_ChooseSerial ==
    [][\A t \in Tasks :
          (Returns(t) /\ req[t].op = "choose") =>
              LET R == get_next_working_key_with_rpm(req[t].snap, req[t].model, now)
              IN  /\ Sched' = StateOf(R)
                  /\ lastCall'.ret = R.ret
                  /\ lastCall'.path = R.path]_vars

\* the choose of r2 has returned a key found by the scan while the
\* handle_api_failure of r1, made before it, has not started
C32_Witness ==
    /\ lastCall.op = "choose" /\ lastCall.task = "r2" /\ lastCall.path = "scan"
    /\ req["r1"].pc = "failCount"
    /\ req["r1"].retries < MAX_RETRIES

\* every key of S is valid and within its limit for model at time t
EligibleIn(S, model, t) ==
    \A k \in Keys(S.api_keys) :
        /\ is_key_valid(S.fails, k)
        /\ is_key_within_rpm_limit(S.times, S.limits, k, model, t)

\* Task t returns from a choose that was pending while the choose of the other
\* task, the last call to return, ran: the two calls were concurrent.
SecondOfTwo(t) ==
    /\ Returns(t) /\ req[t].op = "choose"
    /\ lastCall.op = "choose" /\ lastCall.task # t /\ t \in lastCall.pending
    /\ Len(api_keys) > 1

FoundBy(t) == IF req[t].snap = NoSnap THEN Sched ELSE req[t].snap

\* C34: in handle_api_failure no other call runs between the clearing of the
\* cached key and the selection that follows: the selection finds no cached key,
\* never returns by the cache path, and the whole call leaves the pool and
\* returns the key as handle_api_failure run in one step on the state it found.
C34_FailureChooseAtomic ==
    [][\A t \in Tasks :
          /\ (req[t].op = "onFailure" /\ req[t].pc = "enter") => current_key = NoKey
          /\ (Returns(t) /\ req[t].op = "onFailure") =>
                LET R == handle_api_failure(FoundBy(t), req[t].key, req[t].retries,
                                            req[t].model, now)
                IN  /\ lastCall'.path # "cache"
                    /\ Sched' = StateOf(R)
                    /\ lastCall'.ret = R.ret
                    /\ lastCall'.path = R.path]_vars

\* with RPM_PREFER_CACHE=true, the handle_api_failure of r1 has selected a key by
\* the scan while the choose of r2, made before it ran, waits for its turn
C34_Witness ==
    /\ rpm_prefer_cache
    /\ lastCall.op = "onFailure" /\ lastCall.task = "r1" /\ lastCall.path = "scan"
    /\ req["r2"].op = "choose" /\ req["r2"].pc = "enter"

\* task u has taken the first lock of its call and has not returned
UnderWay(u) == req[u].pc # "idle" /\ req[u].pc # FirstPc(req[u].op)

\* task t reads the primary pool for get_rpm_status in this step
ReadsStatus(t) == req[t].pc = "statusPrimary" /\ req'[t].pc = "statusVertex"

\* C35: get_rpm_status reads the primary pool while no other call is under way,
\* so no key is current whose selection is not yet recorded; what it reports for
\* each key is the cached key, the failure counter and the cleaned window counts
\* of that one state, which is what the call returns; and no step of the call
\* changes the cursor, the cached key or a failure counter.
C35_SnapshotConsistent ==
    [][\A t \in Tasks :
          /\ ReadsStatus(t) =>
                /\ \A u \in Tasks \ {t} : ~UnderWay(u)
                /\ \A k \in KeySet :
                      /\ req'[t].status[k].is_current = (k = current_key)
                      /\ req'[t].status[k].failure_count = key_failure_counts[k]
                      /\ DOMAIN req'[t].status[k].models = DOMAIN key_request_times[k]
                      /\ \A m \in DOMAIN key_request_times[k] :
                            req'[t].status[k].models[m].current_rpm = CountBefore(k, m)
          /\ (Returns(t) /\ req[t].op = "rpmStatus") =>
                lastCall'.status.api_keys = req[t].status
          /\ (req[t].op = "rpmStatus" /\ req'[t] # req[t]) =>
                UNCHANGED <<current_key_index, current_key, key_failure_counts>>]_vars

\* a snapshot taken while the handle_api_failure of the other task was pending
\* shows a current key with a recorded request and a key with a failure
C35_Witness ==
    /\ lastCall.op = "rpmStatus" /\ lastCall.task = "r2"
    /\ req["r1"].op = "onFailure" /\ req["r1"].pc = "failCount"
    /\ \E k \in KeySet :
          /\ lastCall.status.api_keys[k].is_current
          /\ FlashModel \in DOMAIN lastCall.status.api_keys[k].models
          /\ lastCall.status.api_keys[k].models[FlashModel].current_rpm > 0
    /\ \E k \in KeySet : lastCall.status.api_keys[k].failure_count > 0

---------------------------------------------------------------------------
(* The two pools side by side: the calls of the primary pool and those of  *)
(* the auxiliary pool, on pools of the same keys.                          *)

\* reset_vertex_failure_counts
reset_vertex_failure_counts(fails) == [k \in DOMAIN fails |-> 0]

\* reset_vertex_key_failure_count(key)
reset_vertex_key_failure_count(fails, key) ==
    IF key \in DOMAIN fails THEN [fails EXCEPT ![key] = 0] ELSE fails

VertexCall(op, key, retries, ret, path) ==
    [op |-> op, key |-> key, retries |-> retries, ret |-> ret, path |-> path]

\* mutant: the failure of an auxiliary key is counted on the primary pool as well
VertexFailure_OnPrimary(api_key, retries) ==
    /\ vertex_key_failure_counts[api_key] < MaxFailCount
    /\ vertex_key_failure_counts' =
           handle_vertex_api_failure(vertex_key_failure_counts, api_key)
    /\ key_failure_counts' = [key_failure_counts EXCEPT ![api_key] = @ + 1]
    /\ lastVertexCall' = VertexCall("onFailure", api_key, retries, NoKey, "none")
    /\ UNCHANGED <<api_keys, current_key_index, current_key, current_model,
                   key_request_times, rpm_limits, rpm_prefer_cache, rpm_window_seconds,
                   vertex_api_keys, current_vertex_key_index,
                   current_vertex_key, vertex_key_request_times, vertex_key_index_lock,
                   singleton_vars, now, lastCall, hist, req>>

\* handle_vertex_api_failure(api_key, retries): the counter of the key goes up by
\* one and the method ends without a return statement
VertexFailure(api_key, retries) ==
    /\ vertex_key_failure_counts[api_key] < MaxFailCount
    /\ vertex_key_failure_counts' =
           handle_vertex_api_failure(vertex_key_failure_counts, api_key)
    /\ lastVertexCall' = VertexCall("onFailure", api_key, retries, NoKey, "none")
    /\ UNCHANGED <<sched_vars, vertex_api_keys, current_vertex_key_index,
                   current_vertex_key, vertex_key_request_times, vertex_key_index_lock,
                   singleton_vars, now, lastCall, hist, req>>

ResetVertexFailureCounts ==
    /\ vertex_key_failure_counts' = reset_vertex_failure_counts(vertex_key_failure_counts)
    /\ lastVertexCall' = VertexCall("resetAll", NoKey, 0, NoKey, "reset")
    /\ UNCHANGED <<sched_vars, vertex_api_keys, current_vertex_key_index,
                   current_vertex_key, vertex_key_request_times, vertex_key_index_lock,
                   singleton_vars, now, lastCall, hist, req>>

ResetVertexKeyFailureCount(key) ==
    /\ vertex_key_failure_counts' =
           reset_vertex_key_failure_count(vertex_key_failure_counts, key)
    /\ lastVertexCall' = VertexCall("resetKey", key, 0, NoKey, "reset")
    /\ UNCHANGED <<sched_vars, vertex_api_keys, current_vertex_key_index,
                   current_vertex_key, vertex_key_request_times, vertex_key_index_lock,
                   singleton_vars, now, lastCall, hist, req>>

NextPools ==
    \/ \E m \in Models : Choose(m)
    \/ FailureOfHandedOut
    \/ \E k \in KeySet : ResetKeyFailureCount(k)
    \/ ResetFailureCounts
    \/ \E m \in Models : VertexChoose(m)
    \/ GetNextVertexKey
    \/ \E k \in Keys(vertex_api_keys), n \in Attempts : VertexFailure(k, n)
    \/ \E k \in Keys(vertex_api_keys) : ResetVertexKeyFailureCount(k)
    \/ ResetVertexFailureCounts

SpecPools == InitVertex /\ [][NextPools]_vars

\* A step that is a call of handle_vertex_api_failure with the arguments
\* lastVertexCall records
VertexFailureStep ==
    /\ lastVertexCall'.op = "onFailure"
    /\ VertexFailure(lastVertexCall'.key, lastVertexCall'.retries)

\* C36: handle_vertex_api_failure increments the failure counter of the key and,
\* when attempt < MAX_RETRIES, returns a next key of the auxiliary pool.
C36_VertexFailureLikePrimary ==
    [][VertexFailureStep =>
          /\ vertex_key_failure_counts' =
                 [vertex_key_failure_counts EXCEPT ![lastVertexCall'.key] = @ + 1]
          /\ lastVertexCall'.retries < MAX_RETRIES =>
                 lastVertexCall'.ret \in Keys(vertex_api_keys)]_vars

\* what the code does: the counter goes up by one and no key is returned,
\* whatever the attempt
C36_VertexFailureCountsOnly ==
    [][VertexFailureStep =>
          /\ vertex_key_failure_counts' =
                 [vertex_key_failure_counts EXCEPT ![lastVertexCall'.key] = @ + 1]
          /\ lastVertexCall'.ret = NoKey
          /\ UNCHANGED <<current_vertex_key_index, current_vertex_key,
                         vertex_key_request_times>>]_vars

\* A step that is a call on the primary pool
PrimaryStep == ChooseStep \/ FailureStep \/ ResetKeyStep \/ ResetAllStep

\* A step that is a call on the auxiliary pool
AuxiliaryStep ==
    \/ lastVertexCall'.op = "choose" /\ \E m \in Models : VertexChoose(m)
    \/ lastVertexCall'.op = "next" /\ GetNextVertexKey
    \/ VertexFailureStep
    \/ lastVertexCall'.op = "resetKey" /\ ResetVertexKeyFailureCount(lastVertexCall'.key)
    \/ lastVertexCall'.op = "resetAll" /\ ResetVertexFailureCounts

\* C37: a call on the primary pool leaves the cursor, the cached key, the failure
\* counters, the windows and the lock of the auxiliary pool as they were, a call
\* on the auxiliary pool leaves those of the primary pool and current_model as
\* they were, and the settings both pools read (RPM_LIMITS, the window, the cache
\* preference) are changed by no call.
C37_PoolsIndependent ==
    [][/\ PrimaryStep =>
              UNCHANGED <<vertex_api_keys, current_vertex_key_index, current_vertex_key,
                          vertex_key_failure_counts, vertex_key_request_times,
                          vertex_key_index_lock>>
       /\ AuxiliaryStep =>
              UNCHANGED <<api_keys, current_key_index, current_key, current_model,
                          key_failure_counts, key_request_times>>
       /\ UNCHANGED <<rpm_limits, rpm_window_seconds, rpm_prefer_cache>>]_vars

\* both pools have counted failures, the primary pool has a cached key and an
\* advanced cursor, and the last call on the auxiliary pool was a failure
C37_Witness ==
    /\ lastVertexCall.op = "onFailure"
    /\ lastCall.op = "onFailure" /\ lastCall.path = "scan"
    /\ \E k \in KeySet : vertex_key_failure_counts[k] > 0 /\ key_failure_counts[k] = 0
    /\ \E k \in KeySet : key_failure_counts[k] > 0 /\ vertex_key_failure_counts[k] = 0
    /\ current_key # NoKey /\ current_vertex_key = NoKey

---------------------------------------------------------------------------
(* The failure counters under every call that reads or writes them: the    *)
(* scheduler called directly and by a streaming request, the resets,       *)
(* get_keys_by_status, get_first_valid_key and get_rpm_status, all at one  *)
(* instant.                                                                *)

\* the requests of this specification
CounterReqs == {"r1"}

NextCounters ==
    \/ \E r \in CounterReqs, m \in Models : Dispatch(r, m)
    \/ \E r \in CounterReqs : StreamChunk(r)
    \/ \E r \in CounterReqs : StreamComplete(r)
    \/ \E r \in CounterReqs, e \in Errors : StreamFail(r, e)
    \/ \E k \in KeySet : ResetKeyFailureCount(k)
    \/ ResetFailureCounts
    \/ GetKeysByStatus
    \/ GetFirstValidKey
    \/ GetRpmStatus(NoModel)
    \/ \E m \in Models : Choose(m)

SpecCounters == Init /\ [][NextCounters]_vars

\* A step that is a call of get_keys_by_status
ClassifyStep == lastCall'.op = "classify" /\ GetKeysByStatus

\* A step that is a call of get_first_valid_key
FirstValidStep == lastCall'.op = "firstValid" /\ GetFirstValidKey

\* A step that is a call of get_rpm_status
SnapshotStep == lastCall'.op = "rpmStatus" /\ GetRpmStatus(lastCall'.model)

\* A step in which an attempt fails and the dispatcher calls handle_api_failure
AttemptFailsStep ==
    /\ lastCall'.op = "onFailure"
    /\ \E r \in CounterReqs, e \in Errors : StreamFail(r, e)

\* A step of a request that makes no call of handle_api_failure: the first key
\* is obtained, a chunk arrives, the upstream attempt succeeds
AttemptGoesOnStep ==
    \/ lastCall'.op = "choose" /\ \E r \in CounterReqs : Dispatch(r, lastCall'.model)
    \/ \E r \in CounterReqs : StreamChunk(r)
    \/ \E r \in CounterReqs : StreamComplete(r)

Disabled(fails, k) == fails[k] >= MAX_FAILURES

\* C38: every failure counter is a natural number; a step changes the counter of
\* a key only by adding 1 in a handle_api_failure for that key or by setting it
\* to 0 in a reset, so it never goes down otherwise; choose, the steps of an
\* attempt that succeeds, get_keys_by_status, get_first_valid_key and
\* get_rpm_status leave every counter as it was; and a key is passed over as
\* disabled exactly when its counter is >= MAX_FAILURES: get_keys_by_status
\* lists those keys as invalid, get_first_valid_key returns the first key below
\* MAX_FAILURES, and a selection returns such a key unless every key is disabled.
C38_FailureCounters ==
    [][/\ \A k \in DOMAIN key_failure_counts :
             /\ key_failure_counts[k] \in Nat
             /\ k \in DOMAIN key_failure_counts'
             /\ key_failure_counts'[k] # key_failure_counts[k] =>
                   \/ /\ AttemptFailsStep
                      /\ lastCall'.key = k
                      /\ key_failure_counts'[k] = key_failure_counts[k] + 1
                   \/ /\ ResetKeyStep
                      /\ lastCall'.key = k
                      /\ key_failure_counts'[k] = 0
                   \/ /\ ResetAllStep
                      /\ key_failure_counts'[k] = 0
       /\ (ChooseStep \/ AttemptGoesOnStep \/ ClassifyStep \/ FirstValidStep
             \/ SnapshotStep) => UNCHANGED key_failure_counts
       /\ ClassifyStep =>
             \A k \in KeySet :
                 (k \in DOMAIN lastCall'.status.invalid_keys)
                     <=> Disabled(key_failure_counts, k)
       /\ FirstValidStep =>
             \A i \in 1..Len(api_keys) :
                 (/\ ~Disabled(key_failure_counts, api_keys[i])
                  /\ \A j \in 1..(i - 1) : Disabled(key_failure_counts, api_keys[j]))
                     => lastCall'.ret = api_keys[i]
       /\ \/ ChooseStep
          \/ AttemptFailsStep /\ lastCall'.path # "none"
          \/ lastCall'.op = "choose" /\ \E r \in CounterReqs : Dispatch(r, lastCall'.model)
          =>
             /\ lastCall'.path = "forced"
                   <=> \A k \in KeySet : Disabled(key_failure_counts', k)
             /\ lastCall'.path # "forced"
                   => ~Disabled(key_failure_counts', lastCall'.ret)]_vars

\* the request r1 failed twice on the only key, which the second failure
\* disabled, succeeded on its third attempt, and the counter has been reset since
C38_Witness ==
    /\ req["r1"].pc = "done" /\ req["r1"].is_success
    /\ req["r1"].retries = 2 /\ Len(req["r1"].keys) = 3
    /\ Len(api_keys) = 1
    /\ lastCall.op = "resetKey" /\ lastCall.key = req["r1"].keys[1]
    /\ key_failure_counts[lastCall.key] = 0

---------------------------------------------------------------------------
(* The rotation cursor under every call that moves it: the scheduler, the  *)
(* plain rotation, a failure with and without a model, and the replacement *)
(* of the instance by one over another pool.  The clock stands still.      *)
---------------------------------------------------------------------------

\* get_next_key() called on the current instance
GetNextKey ==
    LET R == get_next_key(Sched)
    IN  /\ _singleton_instance
        /\ Store(R)
        /\ lastCall' = Call("nextKey", NoKey, 0, NoModel, R, EmptyStatus)
        /\ UNCHANGED <<vertex_vars, singleton_vars, now, hist, req>>

\* handle_api_failure on the current instance: the key it handed out last
\* fails, on an attempt that is not the last one of its request
FailureOnInstance(api_key, model) ==
    /\ _singleton_instance
    /\ lastCall.op \in {"choose", "onFailure", "nextKey"}
    /\ api_key = lastCall.ret
    /\ HandleApiFailure(api_key, 1, model)

\* The pools of the instances: one key, and two keys of which one is shared
CursorPools == {<<"d">>, <<"a", "d">>}

NextCursor ==
    \/ \E m \in Models : ChooseHandoff(m)
    \/ GetNextKey
    \/ \E k \in KeySet, m \in FailureModels : FailureOnInstance(k, m)
    \/ ResetKeyManagerInstance
    \/ \E keys \in CursorPools : GetKeyManagerInstance(keys, <<>>)

InitCursor == InitWith(CursorPools)

SpecCursor == InitCursor /\ [][NextCursor]_vars

\* C39: for a non-empty pool the rotation cursor is an index of the pool in
\* every reachable state: after any sequence of get_next_working_key_with_rpm,
\* get_next_key and handle_api_failure calls, and in the new instance right after
\* get_key_manager_instance built it over a pool of another size.
C39_CursorInRange ==
    Len(api_keys) > 0 => current_key_index \in 0..(Len(api_keys) - 1)

\* a one-key pool was replaced by a two-key pool that keeps its key: the new
\* cursor stands on that key, at an index the old pool did not have
C39_Witness ==
    /\ lastCall.op = "getInstance"
    /\ _singleton_instance
    /\ Len(handoff.api_keys) = 1
    /\ Len(api_keys) = 2
    /\ current_key_index = 1
    /\ api_keys[current_key_index + 1] = handoff.api_keys[1]

---------------------------------------------------------------------------
(* The migration manager (src/migrations/migration_manager.py).  hist holds *)
(* the module's MIGRATIONS list and req the database file; a migration is   *)
(* named by its version, which register_migration is given once per         *)
(* migration, as in the two registrations of the module.                    *)
---------------------------------------------------------------------------

MaxVersion == 3         \* versions of registered migrations run from 1 to MaxVersion

Versions == 1..MaxVersion
NoVersion == 0

\* The values of t_migration_history.status; the text of a failure is
\* "failed: " followed by the message of the exception
Success == "success"
Failed == "failed"
NoRow == "none"

\* MIGRATIONS: the registered versions, in the order of the list
MIGRATIONS == hist

\* The file at DB_PATH: whether it exists, whether t_migration_history has been
\* created, and the status of the row of each version
Database == req

NoDatabase == [exists |-> FALSE, table |-> FALSE, history |-> [v \in Versions |-> NoRow]]
EmptyDatabase == [exists |-> TRUE, table |-> FALSE, history |-> [v \in Versions |-> NoRow]]

Registered(list) == {list[i] : i \in 1..Len(list)}

create_migration_table(db) == [db EXCEPT !.table = TRUE]

\* mutant: a row of any status counts as applied
get_applied_migrations_AnyStatus(db) == {v \in Versions : db.history[v] # NoRow}

get_applied_migrations(db) == {v \in Versions : db.history[v] = Success}

\* INSERT OR REPLACE on the primary key version
record_migration(db, version, status) == [db EXCEPT !.history[version] = status]

\* list.sort by version: a stable insertion of each element in turn
RECURSIVE SortByVersion(_)
SortByVersion(list) ==
    IF Len(list) <= 1 THEN list
    ELSE LET front == SortByVersion(SubSeq(list, 1, Len(list) - 1))
             last == list[Len(list)]
             below == SelectSeq(front, LAMBDA v : v <= last)
             above == SelectSeq(front, LAMBDA v : v > last)
         IN  below \o <<last>> \o above

RunResult(list, db, pending, attempted, raised, ret) ==
    [MIGRATIONS |-> list, db |-> db, pending |-> pending, attempted |-> attempted,
     raised |-> raised, ret |-> ret]

\* The loop over pending_migrations from its i-th element; raises holds the
\* versions whose migration function raises in this run.  The first exception
\* is recorded and raised again, which ends the loop and the run.
RECURSIVE RunPending(_, _, _, _, _, _)
RunPending(list, db, pending, i, raises, attempted) ==
    IF i > Len(pending) THEN RunResult(list, db, pending, attempted, NoVersion, TRUE)
    ELSE LET version == pending[i]
         IN  IF version \in raises
             THEN RunResult(list, record_migration(db, version, Failed), pending,
                            Append(attempted, version), version, FALSE)
             ELSE RunPending(list, record_migration(db, version, Success), pending,
                             i + 1, raises, Append(attempted, version))

\* run_migrations() on the list and the database
run_migrations(list, db, raises) ==
    IF ~db.exists THEN RunResult(list, db, <<>>, <<>>, NoVersion, FALSE)
    ELSE LET created == create_migration_table(db)
             applied_versions == get_applied_migrations(created)
             sorted == SortByVersion(list)
             pending_migrations == SelectSeq(sorted, LAMBDA v : v \notin applied_versions)
         IN  RunPending(sorted, created, pending_migrations, 1, raises, <<>>)

MigrationCall(op, version, R, before) ==
    [op |-> op, version |-> version, pending |-> R.pending, attempted |-> R.attempted,
     raised |-> R.raised, ret |-> R.ret, before |-> before]

NoRun(list, db) == RunResult(list, db, <<>>, <<>>, NoVersion, TRUE)

\* @register_migration(version, description)
RegisterMigration(version) ==
    /\ version \notin Registered(MIGRATIONS)
    /\ hist' = Append(MIGRATIONS, version)
    /\ lastCall' = MigrationCall("register_migration", version,
                                 NoRun(MIGRATIONS, Database), Database.history)
    /\ UNCHANGED <<sched_vars, vertex_vars, singleton_vars, now, req>>

\* run_migrations(), the whole call
RunMigrations(raises) ==
    LET R == run_migrations(MIGRATIONS, Database, raises)
    IN  /\ hist' = R.MIGRATIONS
        /\ req' = R.db
        /\ lastCall' = MigrationCall("run_migrations", NoVersion, R, Database.history)
        /\ UNCHANGED <<sched_vars, vertex_vars, singleton_vars, now>>

\* The module after line 17, before its registrations, and a database file that
\* exists or not
InitMigrate ==
    /\ KeyManagerInit(<<>>, <<>>, LimitsConfig, RPM_WINDOW_SECONDS, FALSE)
    /\ SingletonInit
    /\ now = 0
    /\ lastVertexCall = NoVertexCall
    /\ handoff = NoHandoff
    /\ hist = <<>>
    /\ req \in {NoDatabase, EmptyDatabase}
    /\ lastCall = MigrationCall("init", NoVersion, NoRun(<<>>, req), req.history)

NextMigrate ==
    \/ \E version \in Versions : RegisterMigration(version)
    \/ \E raises \in SUBSET Versions : RunMigrations(raises)

SpecMigrate == InitMigrate /\ [][NextMigrate]_vars

RunStep ==
    /\ lastCall'.op = "run_migrations"
    /\ \E raises \in SUBSET Versions : RunMigrations(raises)

Ascending(list) == \A i, j \in 1..Len(list) : i < j => list[i] < list[j]

\* C40: run_migrations attempts registered migrations in ascending version
\* order and only those whose row does not say success, and a row that says
\* success keeps saying so; a run that directly follows a run that returned True
\* attempts nothing.  When a migration raises, its row says failed, it is the last
\* one attempted in that run, so that no higher version is applied, and the run
\* returns False; the run that directly follows attempts it again, first of all.
\* A run in which nothing raises records success for all it attempted and
\* returns True.
C40_RunMigrations ==
    [][ /\ \A v \in Versions :
               Database.history[v] = Success => Database'.history[v] = Success
        /\ RunStep =>
             LET attempted == lastCall'.attempted
                 raised == lastCall'.raised
                 after == Database'.history
             IN  /\ Ascending(attempted)
                 /\ \A i \in 1..Len(attempted) :
                        /\ attempted[i] \in Registered(MIGRATIONS)
                        /\ Database.history[attempted[i]] # Success
                        /\ after[attempted[i]] =
                               IF attempted[i] = raised THEN Failed ELSE Success
                 /\ \A v \in Versions :
                        v \notin Registered(attempted) => after[v] = Database.history[v]
                 /\ raised # NoVersion =>
                        /\ attempted # <<>>
                        /\ attempted[Len(attempted)] = raised
                        /\ \A v \in Registered(MIGRATIONS) :
                               v > raised => after[v] = Database.history[v]
                        /\ lastCall'.ret = FALSE
                 /\ (raised = NoVersion /\ Database.exists) =>
                        /\ lastCall'.ret = TRUE
                        /\ \A v \in Registered(MIGRATIONS) : after[v] = Success
                 /\ (lastCall.op = "run_migrations" /\ lastCall.ret = TRUE) =>
                        /\ attempted = <<>>
                        /\ lastCall'.ret = TRUE
                        /\ UNCHANGED Database
                 /\ (lastCall.op = "run_migrations" /\ lastCall.raised # NoVersion) =>
                        /\ attempted # <<>>
                        /\ attempted[1] = lastCall.raised
      ]_vars

\* a run applied version 1 and failed on version 2, and the run after it
\* applied 2 and 3
C40_Witness ==
    /\ lastCall.op = "run_migrations"
    /\ lastCall.attempted = <<2, 3>>
    /\ lastCall.before = [v \in Versions |-> IF v = 1 THEN Success
                                             ELSE IF v = 2 THEN Failed ELSE NoRow]
    /\ lastCall.ret = TRUE
    /\ \A v \in 1..3 : Database.history[v] = Success

===========================================================================
